---- MODULE Spec2Model ----
(***************************************************************************)
(* Model of the auto_unlocker process of TTLockUnlocker: main (schedule    *)
(* setup and the polling loop), the scheduled tasks (job, the break close  *)
(* and reopen tasks, the heartbeat), job's schedule check and its retry    *)
(* sequence with the nested helper try_unlock, ttlock_api.unlock_lock with *)
(* its own three HTTP requests, the two notification sinks (Telegram chat, *)
(* email), and the bot commands that rewrite the configuration file.       *)
(*                                                                         *)
(* The process has one thread.  pc is its position, and one action is the  *)
(* code between two blocking calls.  log is the ordered record of what the *)
(* task in progress did.                                                   *)
(***************************************************************************)
EXTENDS Integers, Sequences, FiniteSets, TLC

VARIABLES
    pc,           \* position of the thread: "boot", "wait", "idle", "check", "close", "reopen",
                  \* "http", "api_sleep", "returned", "job_sleep", "raised"
    job_attempt,  \* number of the job-level attempt in progress (attempt_str), 0 outside a run
    attempt,      \* loop variable of ttlock_api.unlock_lock (0-based request index)
    result,       \* value returned by the last ttlock_api.unlock_lock call
    last_error,   \* job's local last_error
    token,        \* TRUE when ttlock_api.get_token returned a token to the current task
    LOCK_ID,      \* os.getenv('TTLOCK_LOCK_ID') as job reads it ("" when unset)
    outcome,      \* how the last task that returned ended: "none", "success", "exhausted", "no_token",
                  \* "no_lock_id", "disabled", "day_off", "in_break", "no_match",
                  \* "ValueError", "close", "reopen", "heartbeat"
    log,          \* events of the current run, in program order
    runs,         \* number of times job has fired
    exceptions,   \* network exceptions injected into the current run
    tg_failed,    \* some Telegram delivery of the current run failed
    email_failed, \* some email delivery of the current run failed
    scenario,     \* the environment explored: "retry" (faults) or "schedule" (interference)
    config_file,  \* content of the configuration file, as load_config returns it
    TIME_SHIFT,   \* module global TIME_SHIFT
    jobs,         \* kinds of task main registered with the scheduler
    due,          \* registered tasks that fell due while the thread was busy
    now,          \* job's local now (weekday name and HH:MM) of its last call, else NoNow
    cfg,          \* job's local cfg of its last call, else NoCfg
    json_file,    \* the configuration file as stored: absent, unparsable, or a JSON document
    loaded,       \* what the last call of load_config returned, else NotLoaded
    saved,        \* the cfg the last save_config wrote, while the file is as it left it
    clock_tz,     \* the timezone get_now used at job's last clock reading, "" before it
    call,         \* a direct call of ttlock_api.unlock_lock / lock_lock, else NoCall
    writing,      \* the bot's save_config in progress on the file, else NoWrite
    trigger,      \* the scheduler's trigger of job on the process's local clock, else NoTrigger
    bot           \* the bot process: its dialog, its files and what it did, else NoBot

vars == <<pc, job_attempt, attempt, result, last_error, token, LOCK_ID, outcome,
          log, runs, exceptions, tg_failed, email_failed,
          scenario, config_file, TIME_SHIFT, jobs, due, now, cfg,
          json_file, loaded, saved, clock_tz, call, writing, trigger, bot>>

\* Variables of the retry run, and those of the scheduler around it.
runVars == <<job_attempt, attempt, result, last_error, token, exceptions,
             tg_failed, email_failed>>
schedVars == <<scenario, config_file, TIME_SHIFT, jobs, due, now, cfg>>

\* Variables of the specifications that check the configuration functions
\* and the lock operations as functions of their inputs (ConfSpec, ApiSpec).
\* The specifications of the process leave them alone: there config_file is
\* what load_config returns for the file.
fnVars == <<json_file, loaded, saved, clock_tz, call, writing, trigger, bot>>
\* Variables of the process, which those specifications leave alone.
procVars == <<pc, LOCK_ID, outcome, log, runs, runVars, schedVars>>

(***************************************************************************)
(* Bounds of the model.                                                    *)
(***************************************************************************)
MaxRuns == 2
MaxExceptions == 1
\* The schedule scenario: attempts that may fail, tasks deferred at one time.
MaxFailedAttempts == 1
MaxBatch == 2

(***************************************************************************)
(* Program constants.                                                      *)
(***************************************************************************)
\* Ten attempts: five unrolled ones and the loop "for i in range(5)" (attempts 6..10).
MaxAttemptsShort == 10 - 1
MaxAttemptsLong == 10 + 1
MaxAttempts == 10

\* ttlock_api.unlock_lock: "for attempt in range(3)".
ApiRequests == 3

intervals_equal == <<0, 30, 30>>

\* ttlock_api.unlock_lock: intervals = [0, 30, 60] (1-based here).
intervals == <<0, 30, 60>>

LockIds == {"", "lock1"}
ERR_3_ATTEMPTS == "failed to unlock after 3 attempts"
ERR_UNKNOWN == "unknown error"

\* Outcome of one HTTP request to the lock API.
HttpOutcomes == {"ok", "errcode", "exception"}

\* Outcome of one delivery: delivered, refused by the sink (HTTP status not
\* 200 / SMTP parameters missing), or an exception inside the sink.
Delivery == {"ok", "rejected", "exception"}

Ev(ev, k, n, txt, id) == [ev |-> ev, k |-> k, n |-> n, txt |-> txt, id |-> id]

NoResult == [errcode |-> -2, errmsg |-> ""]

IsTg(e) == e.ev \in {"tg_success", "tg_fail", "tg_after3", "tg_after5", "tg_final",
                     "tg_no_token", "tg_no_lock_id"}

(***************************************************************************)
(* The notification sinks.  Both return to the caller for every outcome.   *)
(***************************************************************************)
send_telegram_message_raising(d) ==
    IF d = "exception" THEN "raised" ELSE "returned"

send_telegram_message(d) ==
    CASE d = "ok"        -> "returned"
      [] d = "rejected"  -> "returned"   \* status_code != 200: logger.warning
      [] d = "exception" -> "returned"   \* except Exception: logger.warning

send_email_notification(d) ==
    CASE d = "ok"        -> "returned"   \* return True
      [] d = "rejected"  -> "returned"   \* parameters not configured: return False
      [] d = "exception" -> "returned"   \* except Exception: return False

Send(e, d) == IF e.ev = "email" THEN send_email_notification(d)
              ELSE send_telegram_message(d)

\* Index of the first notification of msgs whose sink raises, 0 when none does.
FirstRaise(msgs, ds) ==
    LET R == {i \in 1..Len(msgs) : Send(msgs[i], ds[i]) = "raised"}
    IN  IF R = {} THEN 0 ELSE CHOOSE i \in R : \A j \in R : i <= j

\* The notifications that were handed to a sink before control left the code.
Issued(msgs, ds) ==
    IF FirstRaise(msgs, ds) = 0 THEN msgs ELSE SubSeq(msgs, 1, FirstRaise(msgs, ds))

TgFailedIn(msgs, ds) ==
    \E i \in 1..Len(Issued(msgs, ds)) : IsTg(msgs[i]) /\ ds[i] # "ok"

EmailFailedIn(msgs, ds) ==
    \E i \in 1..Len(Issued(msgs, ds)) : msgs[i].ev = "email" /\ ds[i] # "ok"

(***************************************************************************)
(* ttlock_api.unlock_lock: how one HTTP request is classified.             *)
(***************************************************************************)
unlock_request_uncaught(o) ==
    CASE o = "ok"        -> "success"
      [] o = "errcode"   -> "failed"
      [] o = "exception" -> "raise"

unlock_request(o) ==
    CASE o = "ok"        -> "success"    \* errcode == 0: return {"errcode": 0, "errmsg": "OK", ...}
      [] o = "errcode"   -> "failed"     \* else branch: log, next iteration
      [] o = "exception" -> "failed"     \* except Exception: log, next iteration

\* The dictionaries unlock_lock returns.
unlock_ok == [errcode |-> 0, errmsg |-> "OK"]
unlock_failed == [errcode |-> -1, errmsg |-> ERR_3_ATTEMPTS]

(***************************************************************************)
(* job: the waits and the nested try_unlock.                               *)
(***************************************************************************)
\* The sleep job makes after failed attempt k.
Wait_flat(k) ==
    CASE k = 1 -> 30 [] k = 2 -> 60 [] OTHER -> 300

Wait_swapped(k) ==
    CASE k = 1 -> 60 [] k = 2 -> 30 [] k = 3 -> 300 [] k = 4 -> 600 [] OTHER -> 900

Wait(k) ==
    CASE k = 1 -> 30
      [] k = 2 -> 60
      [] k = 3 -> 5 * 60
      [] k = 4 -> 10 * 60
      [] OTHER -> 15 * 60

errmsg_of(res) ==
    IF "errmsg" \in DOMAIN res THEN res.errmsg ELSE ERR_UNKNOWN

try_unlock_no_return(res, k, le) ==
    IF res.errcode = 0
    THEN [ret |-> FALSE, last_error |-> le,
          msgs |-> <<Ev("tg_success", k, 0, "", "")>>]
    ELSE [ret |-> FALSE, last_error |-> errmsg_of(res),
          msgs |-> <<Ev("tg_fail", k, 0, errmsg_of(res), "")>>]

try_unlock_stale_error(res, k, le) ==
    IF res.errcode = 0
    THEN [ret |-> TRUE, last_error |-> le,
          msgs |-> <<Ev("tg_success", k, 0, "", "")>>]
    ELSE [ret |-> FALSE, last_error |-> le,
          msgs |-> <<Ev("tg_fail", k, 0, errmsg_of(res), "")>>]

\* try_unlock(attempt_str): the value it returns, the last_error it leaves
\* and the chat message it sends, given the result of unlock_lock.
try_unlock(res, k, le) ==
    IF res.errcode = 0
    THEN [ret |-> TRUE, last_error |-> le,
          msgs |-> <<Ev("tg_success", k, 0, "", "")>>]
    ELSE [ret |-> FALSE, last_error |-> errmsg_of(res),
          msgs |-> <<Ev("tg_fail", k, 0, errmsg_of(res), "")>>]

after_failure_email_first(k, le, lock) ==
    CASE k = 3 -> <<Ev("tg_after3", k, 0, "", "")>>
      [] k = 4 -> <<Ev("email", k, 0, le, lock)>>
      [] k = 5 -> <<Ev("tg_after5", k, 0, "", "")>>
      [] k = MaxAttempts -> <<Ev("tg_final", k, 0, le, "")>>
      [] OTHER -> <<>>

after_failure_final_email(k, le, lock) ==
    CASE k = 3 -> <<Ev("tg_after3", k, 0, "", "")>>
      [] k = 5 -> <<Ev("tg_after5", k, 0, "", ""), Ev("email", k, 0, le, lock)>>
      [] k = MaxAttempts -> <<Ev("tg_final", k, 0, le, ""), Ev("email", k, 0, le, lock)>>
      [] OTHER -> <<>>

after_failure_no_after3(k, le, lock) ==
    CASE k = 5 -> <<Ev("tg_after5", k, 0, "", ""), Ev("email", k, 0, le, lock)>>
      [] k = MaxAttempts -> <<Ev("tg_final", k, 0, le, "")>>
      [] OTHER -> <<>>

\* What job sends after try_unlock returned False for attempt k, before its
\* next sleep or its end.
after_failure(k, le, lock) ==
    CASE k = 3 -> <<Ev("tg_after3", k, 0, "", "")>>
      [] k = 5 -> <<Ev("tg_after5", k, 0, "", ""), Ev("email", k, 0, le, lock)>>
      [] k = MaxAttempts -> <<Ev("tg_final", k, 0, le, "")>>
      [] OTHER -> <<>>

(***************************************************************************)
(* Strings that the program compares or splits are sequences of            *)
(* characters: Python orders strings character by character on the code    *)
(* points, and str.split cuts at every separator.  None and the empty      *)
(* string are both the empty sequence: the program only tests them with    *)
(* "not".                                                                  *)
(***************************************************************************)
Digits == <<"0", "1", "2", "3", "4", "5", "6", "7", "8", "9">>

IsDigit(c) == \E i \in 1..Len(Digits) : Digits[i] = c

\* ord(c) for the characters of time and interval strings.
Ord(c) ==
    IF c = "-" THEN 45
    ELSE IF c = ":" THEN 58
    ELSE 47 + (CHOOSE i \in 1..Len(Digits) : Digits[i] = c)

\* a <= b on Python strings.
RECURSIVE LexLE(_, _)
LexLE(a, b) ==
    IF a = <<>> THEN TRUE
    ELSE IF b = <<>> THEN FALSE
    ELSE IF Ord(Head(a)) < Ord(Head(b)) THEN TRUE
    ELSE IF Ord(Head(a)) > Ord(Head(b)) THEN FALSE
    ELSE LexLE(Tail(a), Tail(b))

\* s.split("-")
RECURSIVE Split(_)
Split(s) ==
    LET D == {i \in 1..Len(s) : s[i] = "-"}
    IN  IF D = {} THEN <<s>>
        ELSE LET i == CHOOSE j \in D : \A k \in D : j <= k
             IN  <<SubSeq(s, 1, i - 1)>> \o Split(SubSeq(s, i + 1, Len(s)))

None == <<>>

\* "not v" for a string or None.
Not(v) == v = <<>>

\* d.get(k, default)
Get(d, k, default) == IF k \in DOMAIN d THEN d[k] ELSE default

EmptyDict == [k \in {} |-> None]

T0859 == <<"0", "8", ":", "5", "9">>
T0900 == <<"0", "9", ":", "0", "0">>
T0901 == <<"0", "9", ":", "0", "1">>
T0902 == <<"0", "9", ":", "0", "2">>
T900 == <<"9", ":", "0", "0">>
T2100 == <<"2", "1", ":", "0", "0">>

Interval(a, b) == a \o <<"-">> \o b

\* job's day_mapping, with the labels transliterated.
day_mapping ==
    ("monday" :> "Pn") @@ ("tuesday" :> "Vt") @@ ("wednesday" :> "Sr") @@
    ("thursday" :> "Ch") @@ ("friday" :> "Pt") @@ ("saturday" :> "Sb") @@
    ("sunday" :> "Vs")

DayLabels == {day_mapping[d] : d \in DOMAIN day_mapping}

(***************************************************************************)
(* The inputs explored: the instants at which job reads the clock and the  *)
(* configurations the file may hold.                                       *)
(***************************************************************************)
Weekdays == {"monday", "saturday"}
Times == {T0859, T0900, T0901}
Nows == [day : Weekdays, time : Times]
NoNow == [day |-> "", time |-> None]

\* The keys job and main read, and max_retry_time with load_config's default.
Config(en, ot, br) ==
    [schedule_enabled |-> en, open_times |-> ot, breaks |-> br, max_retry_time |-> T2100]
NoCfg == Config(FALSE, EmptyDict, EmptyDict)

OpenTimes ==
    {"Pn" :> T0900,     \* Monday opens 09:00, no entry for the other days
     "Pn" :> None,      \* Monday is null
     "Pn" :> T900,      \* malformed open time "9:00"
     "Mon" :> T0900}    \* malformed day label

BreakLists ==
    {<<>>,
     <<Interval(T0859, T0900)>>,     \* ends at the open time
     <<Interval(T0900, T0901)>>,     \* starts at the open time
     <<Interval(T0859, T0901)>>,     \* holds the open time
     <<Interval(T0901, T0902)>>,     \* after the open time
     <<T0900>>,                      \* malformed: no "-"
     <<Interval(T0901, T0902), Interval(T0859, T0900) \o <<"-">> \o T0901>>}  \* malformed: two "-"

ScheduleConfigs ==
    {c \in {Config(en, ot, "Pn" :> br) : en \in BOOLEAN, ot \in OpenTimes, br \in BreakLists} :
        \/ c.schedule_enabled /\ c.open_times = ("Pn" :> T0900)
        \/ /\ c.breaks["Pn"] \in {<<>>, <<T0900>>}
           /\ c.schedule_enabled \/ c.open_times = ("Pn" :> T0900)}

\* Monday opens 09:00, a break 09:01-09:02, and the bot's setmaxretrytime has
\* set max_retry_time to 09:01.
RetryConfig ==
    [Config(TRUE, "Pn" :> T0900, "Pn" :> <<Interval(T0901, T0902)>>)
        EXCEPT !.max_retry_time = T0901]

RetryConfigs == {RetryConfig, [RetryConfig EXCEPT !.schedule_enabled = FALSE]}

ConfigsOf(sc) == IF sc = "retry" THEN RetryConfigs ELSE ScheduleConfigs

(***************************************************************************)
(* job: the schedule check.                                                *)
(***************************************************************************)
schedule_on_always(c) == TRUE

\* cfg.get("schedule_enabled", True); load_config always supplies the key.
schedule_on(c) == c.schedule_enabled

open_time_default(c, day) == Get(c.open_times, day, T0900)

\* cfg.get("open_times", {}).get(current_day)
open_time_of(c, day) == Get(c.open_times, day, None)

in_break_after_start(start, end, t) == ~LexLE(t, start) /\ LexLE(t, end)

\* start <= current_time <= end
in_break(start, end, t) == LexLE(start, t) /\ LexLE(t, end)

\* The loop over the day's breaks: "ValueError" when an entry does not split
\* in two, "in_break" at the first entry that holds t, else "clear".
RECURSIVE break_scan(_, _)
break_scan(breaks, t) ==
    IF breaks = <<>> THEN "clear"
    ELSE LET parts == Split(Head(breaks))
         IN  IF Len(parts) # 2 THEN "ValueError"
             ELSE IF in_break(parts[1], parts[2], t) THEN "in_break"
             ELSE break_scan(Tail(breaks), t)

\* current_time == open_time
time_matches(t, open) == t = open

job_check_unshifted(n, c, shift) ==
    IF ~schedule_on(c) THEN "disabled"
    ELSE IF Not(open_time_of(c, Get(day_mapping, n.day, None))) THEN "day_off"
    ELSE IF break_scan(Get(c.breaks, Get(day_mapping, n.day, None), <<>>), n.time) # "clear"
    THEN break_scan(Get(c.breaks, Get(day_mapping, n.day, None), <<>>), n.time)
    ELSE IF time_matches(n.time, open_time_of(c, Get(day_mapping, n.day, None))) THEN "fire"
    ELSE "no_match"

job_check_first_only(n, c, shift) ==
    IF runs > 0 THEN "no_match"
    ELSE IF ~schedule_on(c) THEN "disabled"
    ELSE IF Not(open_time_of(c, Get(day_mapping, n.day, None))) THEN "day_off"
    ELSE IF time_matches(n.time, open_time_of(c, Get(day_mapping, n.day, None))) THEN "fire"
    ELSE "no_match"

\* What job decides from now, cfg and TIME_SHIFT before it touches the lock.
job_check(n, c, shift) ==
    LET current_day == Get(day_mapping, n.day, None)
        open_time == open_time_of(c, current_day)
        shifted == IF Not(shift) THEN open_time ELSE shift
        scan == break_scan(Get(c.breaks, current_day, <<>>), n.time)
    IN  IF ~schedule_on(c) THEN "disabled"
        ELSE IF Not(open_time) THEN "day_off"
        ELSE IF scan # "clear" THEN scan
        ELSE IF time_matches(n.time, shifted) THEN "fire"
        ELSE "no_match"

precheck_without_token(tok, lock) ==
    IF lock = "" THEN "no_lock_id" ELSE "go"

\* After the time match: "if not token" and "if not LOCK_ID".
precheck(tok, lock) ==
    IF ~tok THEN "no_token"
    ELSE IF lock = "" THEN "no_lock_id"
    ELSE "go"

initial_last_error_stale(prev) == prev

\* last_error = "" before the first attempt.
initial_last_error(prev) == ""

(***************************************************************************)
(* main: the schedule setup.                                               *)
(***************************************************************************)
\* The module global LOCK_ID, which the break tasks read: never assigned.
GLOBAL_LOCK_ID == ""

\* re.match(r'^[0-2][0-9]:[0-5][0-9]$', s)
IsTimeFormat(s) ==
    /\ Len(s) = 5
    /\ s[1] \in {"0", "1", "2"}
    /\ IsDigit(s[2])
    /\ s[3] = ":"
    /\ s[4] \in {"0", "1", "2", "3", "4", "5"}
    /\ IsDigit(s[5])

\* The loop over the breaks of one day: the tasks it registers, or
\* "ValueError" when an entry does not split in two.
RECURSIVE setup_breaks(_, _)
setup_breaks(breaks, day) ==
    IF breaks = <<>> THEN {}
    ELSE LET parts == Split(Head(breaks))
         IN  IF Len(parts) # 2 THEN {"ValueError"}
             ELSE (IF /\ IsTimeFormat(parts[1]) /\ IsTimeFormat(parts[2])
                      /\ day \in DayLabels
                   THEN {"close", "reopen"} ELSE {})
                  \cup setup_breaks(Tail(breaks), day)

\* One iteration of "for day, time in config.get('open_times', {}).items()".
setup_day(c, day) ==
    LET time == c.open_times[day]
    IN  IF Not(time) \/ ~IsTimeFormat(time) THEN {}
        ELSE (IF day \in DayLabels THEN {"job"} ELSE {})
             \cup setup_breaks(Get(c.breaks, day, <<>>), day)

setup(c) == UNION {setup_day(c, d) : d \in DOMAIN c.open_times} \cup {"heartbeat"}

TaskKinds == {"job", "close", "reopen", "heartbeat"}

\* ttlock_api.list_locks(token): the locks of the account, in the API's order.
AccountLocks == <<"lock1", "lock2">>

\* resolve_lock_id(token): TTLOCK_LOCK_ID when set, else the lockId of the
\* first lock of the list, else None.  No task and no part of main calls it.
resolve_lock_id(env, locks) ==
    IF env # "" THEN env
    ELSE IF locks = <<>> THEN ""
    ELSE Head(locks)

(***************************************************************************)
(* The configuration file.  Python values and JSON documents are tagged:   *)
(* json.dump and json.load translate one into the other.                   *)
(***************************************************************************)
PyNone == [t |-> "None"]
PyBool(b) == [t |-> "bool", v |-> b]
PyStr(x) == [t |-> "str", v |-> x]
PyList(q) == [t |-> "list", v |-> q]
PyDict(f) == [t |-> "dict", v |-> f]

JNull == [t |-> "null"]
JBool(b) == [t |-> "boolean", v |-> b]
JStr(x) == [t |-> "string", v |-> x]
JArr(q) == [t |-> "array", v |-> q]
JObj(f) == [t |-> "object", v |-> f]

RECURSIVE json_dumps(_)
json_dumps_drop_null(x) ==
    CASE x.t = "None" -> JNull
      [] x.t = "bool" -> JBool(x.v)
      [] x.t = "str"  -> JStr(x.v)
      [] x.t = "list" -> JArr([i \in 1..Len(x.v) |-> json_dumps(x.v[i])])
      [] x.t = "dict" -> JObj([k \in {j \in DOMAIN x.v : x.v[j] # PyNone} |-> json_dumps(x.v[k])])

\* json.dump(cfg, f, ensure_ascii=False, indent=2): the document written.
json_dumps(x) ==
    CASE x.t = "None" -> JNull
      [] x.t = "bool" -> JBool(x.v)
      [] x.t = "str"  -> JStr(x.v)
      [] x.t = "list" -> JArr([i \in 1..Len(x.v) |-> json_dumps(x.v[i])])
      [] x.t = "dict" -> JObj([k \in DOMAIN x.v |-> json_dumps(x.v[k])])

\* json.load(f) of a parsable document.
RECURSIVE json_loads(_)
json_loads(d) ==
    CASE d.t = "null"    -> PyNone
      [] d.t = "boolean" -> PyBool(d.v)
      [] d.t = "string"  -> PyStr(d.v)
      [] d.t = "array"   -> PyList([i \in 1..Len(d.v) |-> json_loads(d.v[i])])
      [] d.t = "object"  -> PyDict([k \in DOMAIN d.v |-> json_loads(d.v[k])])

\* The file: absent, not JSON, or a JSON document.
FileMissing == [t |-> "missing"]
FileGarbage == [t |-> "garbage"]
FileJson(d) == [t |-> "json", v |-> d]

KRASNOYARSK == "Asia/Krasnoyarsk"
MOSCOW == "Europe/Moscow"
NOVOSIBIRSK == "Asia/Novosibirsk"

WorkDays == {"Pn", "Vt", "Sr", "Ch", "Pt"}

\* load_config's local default.
default ==
    PyDict(
        ("timezone" :> PyStr(KRASNOYARSK)) @@
        ("schedule_enabled" :> PyBool(TRUE)) @@
        ("max_retry_time" :> PyStr(T2100)) @@
        ("open_times" :> PyDict([d \in DayLabels |->
                            IF d \in WorkDays THEN PyStr(T0900) ELSE PyNone])) @@
        ("breaks" :> PyDict([d \in DayLabels |-> PyList(<<>>)])))

\* The try block of load_config: the exception it ends with, or the value
\* it returns.
Raised(e) == [t |-> "raised", v |-> e]

load_config_try(f) ==
    IF f.t = "missing" THEN Raised("FileNotFoundError")        \* open(CONFIG_PATH, "r")
    ELSE IF f.t = "garbage" THEN Raised("JSONDecodeError")     \* json.load(f)
    ELSE LET config == json_loads(f.v)
         IN  IF config.t # "dict" THEN Raised("AttributeError")    \* config.items()
             ELSE LET given == {k \in DOMAIN config.v : config.v[k] # PyNone}
                  IN  PyDict([k \in DOMAIN default.v \cup given |->
                                IF k \in given THEN config.v[k] ELSE default.v[k]])

load_config_narrow_except(f) ==
    IF load_config_try(f).t = "raised"
    THEN (IF load_config_try(f).v = "AttributeError" THEN load_config_try(f) ELSE default)
    ELSE load_config_try(f)

\* auto_unlocker.load_config(): "except Exception" returns the default.
load_config(f) ==
    IF load_config_try(f).t = "raised" THEN default
    ELSE load_config_try(f)

\* auto_unlocker.save_config(cfg): the file it leaves, by what happens to the
\* write: done, open() fails (the file is untouched), or the write fails
\* after open(..., "w") has truncated the file.  It re-raises the failure.
WriteOutcomes == {"ok", "open_error", "write_error"}

save_config(c, f, w) ==
    CASE w = "ok"          -> FileJson(json_dumps(c))
      [] w = "open_error"  -> f
      [] w = "write_error" -> FileGarbage

\* ttlock_api.get_timezone(): config.get('timezone', 'Europe/Moscow'), and
\* 'Europe/Moscow' on any exception.
get_timezone(f) ==
    IF f.t # "json" THEN PyStr(MOSCOW)
    ELSE IF json_loads(f.v).t # "dict" THEN PyStr(MOSCOW)
    ELSE Get(json_loads(f.v).v, "timezone", PyStr(MOSCOW))

\* pytz.timezone(name) in get_now: the zone, or an exception for a name that
\* is not a zone (None included).
Zones == {KRASNOYARSK, MOSCOW, NOVOSIBIRSK}

get_now_zone(f) ==
    IF get_timezone(f).t = "str" /\ get_timezone(f).v \in Zones
    THEN get_timezone(f).v
    ELSE "raise"

\* The entries a configuration file or a saved configuration may carry.
Absent == [t |-> "absent"]

Entry(k, x) == IF x = Absent THEN <<>> ELSE k :> x

OpenTimesSaved ==
    PyDict([d \in DayLabels |-> IF d = "Pn" THEN PyStr(T0901) ELSE PyNone])

BreaksSaved ==
    PyDict([d \in DayLabels |->
              IF d = "Pn"
              THEN PyList(<<PyStr(Interval(T0902, T2100)), PyStr(Interval(T0900, T0901))>>)
              ELSE PyList(<<>>)])

ConfigDicts(tzs, ens, ots, brs, mrs) ==
    {PyDict(Entry("timezone", tz) @@ Entry("schedule_enabled", en) @@
            Entry("open_times", ot) @@ Entry("breaks", br) @@
            Entry("max_retry_time", mr)) :
        tz \in tzs, en \in ens, ot \in ots, br \in brs, mr \in mrs}

\* The configurations handed to save_config: every ScheduleConfig field is
\* set; max_retry_time is there once /setmaxretrytime has stored it.
SavedConfigs ==
    ConfigDicts({PyStr(MOSCOW), PyStr(NOVOSIBIRSK)}, {PyBool(FALSE), PyBool(TRUE)},
                {OpenTimesSaved}, {BreaksSaved, PyDict([d \in DayLabels |-> PyList(<<>>)])},
                {Absent, PyStr(T0901)})

\* The files load_config and get_timezone may find: no file, a file that is
\* not JSON, a JSON document that is not an object, and objects with any of
\* the keys left out or the timezone null.
Files ==
    {FileMissing, FileGarbage, FileJson(JArr(<<>>))} \cup
    {FileJson(json_dumps(c)) :
        c \in ConfigDicts({Absent, PyNone, PyStr(MOSCOW), PyStr(KRASNOYARSK)},
                          {Absent, PyBool(FALSE), PyBool(TRUE)},
                          {Absent, OpenTimesSaved}, {Absent, BreaksSaved},
                          {Absent, PyStr(T0901)})}

NotLoaded == [t |-> "not_loaded"]
Nothing == [t |-> "nothing"]
NoCall == [st |-> "none"]
NoWrite == [st |-> "none"]
NoTrigger == [st |-> "none"]
NoBot == [st |-> "none"]

(***************************************************************************)
(* State machine.                                                          *)
(***************************************************************************)
\* What each scenario lets the environment do.
HttpOutcomesOf(sc, k) ==
    IF sc = "retry" THEN HttpOutcomes
    ELSE IF k <= MaxFailedAttempts THEN {"ok", "errcode"}
    ELSE {"ok"}

DeliveryOf(sc) == IF sc = "retry" THEN Delivery ELSE {"ok"}

\* The tasks that may have fallen due by the end of a sleep.
Arrivals ==
    IF scenario = "retry" THEN {due}
    ELSE {due \cup A : A \in {B \in SUBSET (jobs \ due) : Cardinality(due \cup B) <= MaxBatch}}

InitWith(sc) ==
    /\ pc = "boot"
    /\ job_attempt = 0
    /\ attempt = 0
    /\ result = NoResult
    /\ last_error = ""
    /\ token = FALSE
    /\ LOCK_ID \in LockIds
    /\ outcome = "none"
    /\ log = <<>>
    /\ runs = 0
    /\ exceptions = 0
    /\ tg_failed = FALSE
    /\ email_failed = FALSE
    /\ scenario = sc
    /\ config_file \in ConfigsOf(sc)
    /\ TIME_SHIFT = None
    /\ jobs = {}
    /\ due = {}
    /\ now = NoNow
    /\ cfg = NoCfg
    /\ json_file = FileMissing
    /\ loaded = NotLoaded
    /\ saved = Nothing
    /\ clock_tz = ""
    /\ call = NoCall
    /\ writing = NoWrite
    /\ trigger = NoTrigger
    /\ bot = NoBot

Init == InitWith("retry")

SchedInit == InitWith("schedule")

\* The locals of the task that ran before are gone when a task starts.
FreshTask ==
    /\ job_attempt' = 0
    /\ attempt' = 0
    /\ result' = NoResult
    /\ token' = FALSE
    /\ exceptions' = 0
    /\ tg_failed' = FALSE
    /\ email_failed' = FALSE
    /\ log' = <<>>

\* main registers the tasks of configuration c and enters the polling loop,
\* or dies of the ValueError of a break entry that does not split in two.
Register(c) ==
    IF "ValueError" \in setup(c)
    THEN pc' = "raised" /\ outcome' = "ValueError" /\ jobs' = {}
    ELSE pc' = "idle" /\ outcome' = "none" /\ jobs' = setup(c)

\* main, from the start of the process to the polling loop (or to the wait
\* for the schedule to be enabled).
main ==
    /\ UNCHANGED fnVars
    /\ pc = "boot"
    /\ TIME_SHIFT' = None
    /\ IF ~config_file.schedule_enabled
       THEN pc' = "wait" /\ UNCHANGED <<outcome, jobs>>
       ELSE Register(config_file)
    /\ UNCHANGED <<runVars, LOCK_ID, log, runs, scenario, config_file, due, now, cfg>>

\* main, schedule disabled at start: time_module.sleep(60), load_config again.
main_reload ==
    /\ UNCHANGED fnVars
    /\ pc = "wait"
    /\ IF ~config_file.schedule_enabled
       THEN UNCHANGED <<pc, outcome, jobs>>
       ELSE Register(config_file)
    /\ UNCHANGED <<runVars, LOCK_ID, log, runs, scenario, config_file, TIME_SHIFT,
                   due, now, cfg>>

ThreadFree_always == TRUE

\* schedule.run_pending() is called by the one thread of the process, which
\* is in the polling loop only while no task is running.
ThreadFree == pc = "idle"

\* run_pending starts the registered task k, due now or deferred.
Dispatch(k) ==
    /\ ThreadFree
    /\ k \in jobs
    /\ due' = due \ {k}

\* The scheduler calls job: the clock is read and the configuration loaded.
JobInvoke ==
    /\ UNCHANGED fnVars
    /\ Dispatch("job")
    /\ \E n \in Nows :
        /\ job_check(n, config_file, TIME_SHIFT) = "fire" => runs < MaxRuns
        /\ now' = n
    /\ cfg' = config_file
    /\ pc' = "check"
    /\ FreshTask
    /\ UNCHANGED <<last_error, outcome, LOCK_ID, runs, scenario, config_file, TIME_SHIFT, jobs>>

\* job, from the schedule check to its return or, when it fires, through the
\* token retrieval and the LOCK_ID check to the first HTTP request of
\* try_unlock("1").
job ==
    /\ UNCHANGED fnVars
    /\ pc = "check"
    /\ exceptions' = 0
    /\ result' = NoResult
    /\ attempt' = 0
    /\ email_failed' = FALSE
    /\ UNCHANGED <<LOCK_ID, schedVars>>
    /\ LET d == job_check(now, cfg, TIME_SHIFT)
       IN  IF d = "fire"
           THEN /\ runs' = runs + 1
                /\ last_error' = initial_last_error(last_error)
                /\ \E tok \in BOOLEAN, dl \in DeliveryOf(scenario) :
                    /\ token' = tok
                    /\ IF precheck(tok, LOCK_ID) # "go"
                       THEN LET m == IF precheck(tok, LOCK_ID) = "no_token"
                                     THEN Ev("tg_no_token", 0, 0, "", "")
                                     ELSE Ev("tg_no_lock_id", 0, 0, "", "")
                            IN  /\ log' = <<m>>
                                /\ tg_failed' = (dl # "ok")
                                /\ job_attempt' = 0
                                /\ outcome' = precheck(tok, LOCK_ID)
                                /\ pc' = IF Send(m, dl) = "raised" THEN "raised" ELSE "idle"
                       ELSE /\ dl = "ok"
                            /\ log' = <<Ev("call", 1, 0, "", "")>>
                            /\ tg_failed' = FALSE
                            /\ job_attempt' = 1
                            /\ outcome' = "none"
                            /\ pc' = "http"
           ELSE /\ pc' = IF d = "ValueError" THEN "raised" ELSE "idle"
                /\ outcome' = d
                /\ UNCHANGED <<runs, last_error, token, log, tg_failed, job_attempt>>

\* A break task starts: ttlock_api.get_token is called.
StartBreakTask(k) ==
    /\ UNCHANGED fnVars
    /\ Dispatch(k)
    /\ pc' = k
    /\ FreshTask
    /\ now' = NoNow
    /\ cfg' = NoCfg
    /\ UNCHANGED <<last_error, outcome, LOCK_ID, runs, scenario, config_file, TIME_SHIFT, jobs>>

\* get_token has returned: "if token and LOCK_ID", with the module global
\* LOCK_ID, guards the command to the lock.
BreakTaskReturn(k, cmd) ==
    /\ UNCHANGED fnVars
    /\ pc = k
    /\ \E tok \in BOOLEAN :
        /\ token' = tok
        /\ log' = IF tok /\ GLOBAL_LOCK_ID # ""
                  THEN <<Ev(cmd, 0, 0, "", GLOBAL_LOCK_ID)>> ELSE <<>>
    /\ pc' = "idle"
    /\ outcome' = k
    /\ UNCHANGED <<job_attempt, attempt, result, last_error, exceptions, tg_failed,
                   email_failed, LOCK_ID, runs, schedVars>>

close_start == StartBreakTask("close")
close_return == BreakTaskReturn("close", "lock_cmd")
reopen_start == StartBreakTask("reopen")
reopen_return == BreakTaskReturn("reopen", "unlock_cmd")

\* The hourly heartbeat: one log line.
log_heartbeat ==
    /\ UNCHANGED fnVars
    /\ Dispatch("heartbeat")
    /\ pc' = "idle"
    /\ outcome' = "heartbeat"
    /\ FreshTask
    /\ now' = NoNow
    /\ cfg' = NoCfg
    /\ UNCHANGED <<last_error, LOCK_ID, runs, scenario, config_file, TIME_SHIFT, jobs>>

\* One requests.post of unlock_lock and the classification of its response.
HttpRequest ==
    /\ UNCHANGED fnVars
    /\ pc = "http"
    /\ \E o \in HttpOutcomesOf(scenario, job_attempt) :
        /\ o = "exception" => exceptions < MaxExceptions
        /\ exceptions' = IF o = "exception" THEN exceptions + 1 ELSE exceptions
        /\ LET r == unlock_request(o)
               reqEv == Ev("req", job_attempt, attempt + 1, o, "")
           IN  CASE r = "success" ->
                      /\ result' = unlock_ok
                      /\ log' = log \o <<reqEv, Ev("ret", job_attempt, 0, "OK", "")>>
                      /\ pc' = "returned"
                      /\ UNCHANGED attempt
                 [] r = "failed" /\ attempt + 1 < ApiRequests ->
                      /\ attempt' = attempt + 1
                      /\ log' = Append(log, reqEv)
                      /\ pc' = "api_sleep"
                      /\ UNCHANGED result
                 [] r = "failed" /\ attempt + 1 >= ApiRequests ->
                      /\ result' = unlock_failed
                      /\ log' = log \o <<reqEv, Ev("ret", job_attempt, -1, ERR_3_ATTEMPTS, "")>>
                      /\ pc' = "returned"
                      /\ UNCHANGED attempt
                 [] r = "raise" ->
                      /\ log' = Append(log, reqEv)
                      /\ pc' = "raised"
                      /\ UNCHANGED <<attempt, result>>
    /\ UNCHANGED <<job_attempt, last_error, token, LOCK_ID, outcome, runs,
                   tg_failed, email_failed, schedVars>>

\* unlock_lock: time.sleep(intervals[attempt]) before request attempt+1.
ApiSleep ==
    /\ UNCHANGED fnVars
    /\ pc = "api_sleep"
    /\ log' = Append(log, Ev("api_sleep", job_attempt, intervals[attempt + 1], "", ""))
    /\ pc' = "http"
    /\ due' \in Arrivals
    /\ UNCHANGED <<job_attempt, attempt, result, last_error, token, LOCK_ID, outcome,
                   runs, exceptions, tg_failed, email_failed,
                   scenario, config_file, TIME_SHIFT, jobs, now, cfg>>

\* The notifications try_unlock and job send once unlock_lock has returned.
PendingMsgs ==
    LET t == try_unlock(result, job_attempt, last_error)
    IN  IF t.ret THEN t.msgs
        ELSE t.msgs \o after_failure(job_attempt, t.last_error, LOCK_ID)

\* unlock_lock has returned: the rest of try_unlock and the statements of job
\* that follow it, up to job's next sleep or its end.
TryUnlockReturn ==
    /\ UNCHANGED fnVars
    /\ pc = "returned"
    /\ LET t == try_unlock(result, job_attempt, last_error)
           msgs == PendingMsgs
       IN  \E ds \in [1..Len(msgs) -> DeliveryOf(scenario)] :
            /\ last_error' = t.last_error
            /\ log' = log \o Issued(msgs, ds)
            /\ tg_failed' = (tg_failed \/ TgFailedIn(msgs, ds))
            /\ email_failed' = (email_failed \/ EmailFailedIn(msgs, ds))
            /\ IF FirstRaise(msgs, ds) # 0
               THEN pc' = "raised" /\ UNCHANGED outcome
               ELSE IF t.ret
               THEN pc' = "idle" /\ outcome' = "success"
               ELSE IF job_attempt >= MaxAttempts
               THEN pc' = "idle" /\ outcome' = "exhausted"
               ELSE pc' = "job_sleep" /\ UNCHANGED outcome
    /\ UNCHANGED <<job_attempt, attempt, result, token, LOCK_ID, runs, exceptions,
                   schedVars>>

JobSleep_new_token ==
    /\ UNCHANGED fnVars
    /\ pc = "job_sleep"
    /\ log' = log \o <<Ev("sleep", job_attempt, Wait(job_attempt), "", ""),
                       Ev("call", job_attempt + 1, 0, "", "")>>
    /\ job_attempt' = job_attempt + 1
    /\ attempt' = 0
    /\ pc' = "http"
    /\ due' \in Arrivals
    /\ token' \in BOOLEAN
    /\ UNCHANGED <<result, last_error, LOCK_ID, outcome, runs, exceptions,
                   tg_failed, email_failed,
                   scenario, config_file, TIME_SHIFT, jobs, now, cfg>>

JobSleep_recheck ==
    /\ UNCHANGED fnVars
    /\ pc = "job_sleep"
    /\ due' \in Arrivals
    /\ IF config_file.schedule_enabled
       THEN /\ log' = log \o <<Ev("sleep", job_attempt, Wait(job_attempt), "", ""),
                               Ev("call", job_attempt + 1, 0, "", "")>>
            /\ job_attempt' = job_attempt + 1
            /\ pc' = "http"
            /\ UNCHANGED outcome
       ELSE /\ log' = Append(log, Ev("sleep", job_attempt, Wait(job_attempt), "", ""))
            /\ pc' = "idle"
            /\ outcome' = "disabled"
            /\ UNCHANGED job_attempt
    /\ attempt' = 0
    /\ UNCHANGED <<result, last_error, token, LOCK_ID, runs, exceptions,
                   tg_failed, email_failed,
                   scenario, config_file, TIME_SHIFT, jobs, now, cfg>>

\* job: time_module.sleep(Wait) and the next call of try_unlock.
JobSleep ==
    /\ UNCHANGED fnVars
    /\ pc = "job_sleep"
    /\ log' = log \o <<Ev("sleep", job_attempt, Wait(job_attempt), "", ""),
                       Ev("call", job_attempt + 1, 0, "", "")>>
    /\ job_attempt' = job_attempt + 1
    /\ attempt' = 0
    /\ pc' = "http"
    /\ due' \in Arrivals
    /\ UNCHANGED <<result, last_error, token, LOCK_ID, outcome, runs, exceptions,
                   tg_failed, email_failed,
                   scenario, config_file, TIME_SHIFT, jobs, now, cfg>>

\* A bot command that changes the configuration: save_config, then
\* restart_auto_unlocker_and_notify, where container.restart() goes through
\* (ok) or raises and is caught.  A restart ends the process, whatever it was
\* doing, and starts it again.
ConfigWrite ==
    /\ UNCHANGED fnVars
    /\ IF scenario = "retry" THEN pc \in {"boot", "wait"} ELSE pc # "check"
    /\ \E c \in ConfigsOf(scenario), ok \in BOOLEAN :
        /\ config_file' = c
        /\ IF ok
           THEN /\ pc' = "boot"
                /\ outcome' = "none"
                /\ last_error' = ""
                /\ FreshTask
                /\ TIME_SHIFT' = None
                /\ jobs' = {}
                /\ due' = {}
                /\ now' = NoNow
                /\ cfg' = NoCfg
           ELSE UNCHANGED <<pc, outcome, runVars, log, TIME_SHIFT, jobs, due, now, cfg>>
    /\ UNCHANGED <<LOCK_ID, runs, scenario>>

Next ==
    \/ main \/ main_reload
    \/ JobInvoke \/ job
    \/ close_start \/ close_return \/ reopen_start \/ reopen_return
    \/ log_heartbeat
    \/ HttpRequest \/ ApiSleep \/ TryUnlockReturn \/ JobSleep
    \/ ConfigWrite

Spec == Init /\ [][Next]_vars

\* Every actuator call and every sleep returns.
FairSpec ==
    /\ Spec
    /\ WF_vars(HttpRequest)
    /\ WF_vars(ApiSleep)
    /\ WF_vars(TryUnlockReturn)
    /\ WF_vars(JobSleep)

\* The schedule scenario: every configuration and instant, tasks falling due
\* and bot commands while a run is in flight.
SchedSpec == SchedInit /\ [][Next]_vars

\* job called directly with the module global TIME_SHIFT patched, as
\* test_job_with_time_shift does: main has not run, so nothing has reset the
\* global, and the caller calls job at the instants it chooses.
TimeShifts == {None, T0901}

JobInit ==
    /\ pc = "idle"
    /\ job_attempt = 0
    /\ attempt = 0
    /\ result = NoResult
    /\ last_error = ""
    /\ token = FALSE
    /\ LOCK_ID \in LockIds
    /\ outcome = "none"
    /\ log = <<>>
    /\ runs = 0
    /\ exceptions = 0
    /\ tg_failed = FALSE
    /\ email_failed = FALSE
    /\ scenario = "schedule"
    /\ config_file \in ScheduleConfigs
    /\ TIME_SHIFT \in TimeShifts
    /\ jobs = {"job"}
    /\ due = {}
    /\ now = NoNow
    /\ cfg = NoCfg
    /\ json_file = FileMissing
    /\ loaded = NotLoaded
    /\ saved = Nothing
    /\ clock_tz = ""
    /\ call = NoCall
    /\ writing = NoWrite
    /\ trigger = NoTrigger
    /\ bot = NoBot

JobNext ==
    \/ JobInvoke \/ job
    \/ HttpRequest \/ ApiSleep \/ TryUnlockReturn \/ JobSleep

JobSpec == JobInit /\ [][JobNext]_vars

TypeOK ==
    /\ pc \in {"boot", "wait", "idle", "check", "close", "reopen",
               "http", "api_sleep", "returned", "job_sleep", "raised"}
    /\ job_attempt \in 0..MaxAttempts
    /\ attempt \in 0..(ApiRequests - 1)
    /\ outcome \in {"none", "success", "exhausted", "no_token", "no_lock_id",
                    "disabled", "day_off", "in_break", "no_match", "ValueError",
                    "close", "reopen", "heartbeat"}
    /\ runs \in 0..MaxRuns
    /\ scenario \in {"retry", "schedule"}
    /\ config_file \in ConfigsOf(scenario)
    /\ jobs \subseteq TaskKinds
    /\ due \subseteq jobs
    /\ now \in Nows \cup {NoNow}
    /\ TIME_SHIFT \in TimeShifts

(***************************************************************************)
(* Reading the log of the current run.                                     *)
(***************************************************************************)
Sel(kinds) == SelectSeq(log, LAMBDA e : e.ev \in kinds)

TgKinds == {"tg_success", "tg_fail", "tg_after3", "tg_after5", "tg_final",
            "tg_no_token", "tg_no_lock_id"}

Durations(s) == [i \in 1..Len(s) |-> s[i].n]

RECURSIVE Sum(_)
Sum(s) == IF s = <<>> THEN 0 ELSE Head(s) + Sum(Tail(s))

\* Sleeps job itself makes, and every sleep of the run (job's and unlock_lock's).
JobSleeps == Durations(Sel({"sleep"}))
AllSleeps == Durations(Sel({"sleep", "api_sleep"}))

\* job-level events: calls of try_unlock and job's sleeps.
JobTrace == Sel({"call", "sleep"})

Positions(kind, k) == {i \in 1..Len(log) : log[i].ev = kind /\ log[i].k = k}
Pos(kind, k) == CHOOSE i \in Positions(kind, k) : TRUE

\* Attempt k has returned from unlock_lock with a failure / with success.
Failed(k) == \E i \in Positions("ret", k) : log[i].n # 0
Succeeded(k) == \E i \in Positions("ret", k) : log[i].n = 0

Finished == pc = "idle" /\ outcome \in {"success", "exhausted"}
Exhausted == pc = "idle" /\ outcome = "exhausted"
SucceededAt(k) == pc = "idle" /\ outcome = "success" /\ job_attempt = k

ExpectedWaits == <<30, 60, 300, 600, 900, 900, 900, 900, 900>>

\* call 1, sleep 30, call 2, sleep 60, ..., call m.
ExpectedJobTrace(m) ==
    [i \in 1..(2 * m - 1) |->
        IF i % 2 = 1 THEN Ev("call", (i + 1) \div 2, 0, "", "")
        ELSE Ev("sleep", i \div 2, ExpectedWaits[i \div 2], "", "")]

(***************************************************************************)
(* C1 (as stated): in a run in which every attempt fails, exactly 10       *)
(* attempts are made, job's waits between consecutive attempts are 30, 60, *)
(* 300, 600, 900, 900, 900, 900, 900 seconds in that order, 5890 s in      *)
(* total, and no wait precedes attempt 1 or follows attempt 10.            *)
(***************************************************************************)
ScheduleOfFailedRun ==
    /\ Len(Sel({"call"})) = 10
    /\ \A k \in 1..10 : Failed(k)
    /\ JobSleeps = ExpectedWaits
    /\ JobTrace = ExpectedJobTrace(10)
    /\ log[1].ev = "call"
    /\ \A k \in 1..9 : Pos("ret", k) < Pos("sleep", k) /\ Pos("sleep", k) < Pos("call", k + 1)
    /\ Positions("sleep", 10) = {}
    /\ \A i \in 1..Len(log) : i > Pos("ret", 10) => log[i].ev \notin {"sleep", "api_sleep"}

C1_Total5890 ==
    Exhausted => (ScheduleOfFailedRun /\ Sum(JobSleeps) = 5890)

(***************************************************************************)
(* C1 (amended): the same attempts and waits, each wait after the return   *)
(* of attempt k and before the call of attempt k+1; the nine waits add up  *)
(* to 5490 s.                                                              *)
(***************************************************************************)
C1_FullSchedule ==
    Exhausted => (ScheduleOfFailedRun /\ Sum(JobSleeps) = 5490)

C1_Witness == Exhausted /\ Len(JobSleeps) = 9

(***************************************************************************)
(* C2: when attempt k (1..10) returns errcode 0 the run stops at once:     *)
(* the only event after the return is one success message naming k; no     *)
(* further call, wait, failure, escalation or exhaustion notification.     *)
(***************************************************************************)
C2_SuccessStops ==
    \A i \in 1..Len(log) :
        (log[i].ev = "ret" /\ log[i].n = 0) =>
            /\ log[i].k = job_attempt
            /\ log[i].k \in 1..10
            /\ \/ i = Len(log) /\ pc = "returned"
               \/ /\ i + 1 = Len(log)
                  /\ log[i + 1] = Ev("tg_success", log[i].k, 0, "", "")
                  /\ pc = "idle" /\ outcome = "success"
                  /\ Len(Sel({"tg_success"})) = 1
            /\ Positions("call", log[i].k + 1) = {}
            /\ Positions("sleep", log[i].k) = {}

C2_Witness == SucceededAt(10) /\ Len(Sel({"tg_success"})) = 1

(***************************************************************************)
(* C3: within one run the only moves are ATTEMPTING(k) -> SUCCESS on       *)
(* success, ATTEMPTING(k) -> ATTEMPTING(k+1) on failure for k < 10 after   *)
(* the wait, and ATTEMPTING(10) -> EXHAUSTED; the attempt number never     *)
(* skips, repeats or exceeds 10, and SUCCESS and EXHAUSTED are left only   *)
(* by the start of a new run.                                              *)
(***************************************************************************)
Attempting == pc \in {"http", "api_sleep", "returned", "job_sleep"}

C3_Step ==
    /\ job_attempt' <= 10
    /\ (Attempting /\ Attempting') =>
          \/ job_attempt' = job_attempt
          \/ /\ job_attempt' = job_attempt + 1
             /\ job_attempt < 10
             /\ pc = "job_sleep"
             /\ result.errcode # 0
             /\ log' = log \o <<Ev("sleep", job_attempt, ExpectedWaits[job_attempt], "", ""),
                                Ev("call", job_attempt + 1, 0, "", "")>>
    /\ (Attempting /\ ~Attempting') =>
          /\ pc' = "idle"
          /\ job_attempt' = job_attempt
          /\ \/ outcome' = "success" /\ result.errcode = 0
             \/ outcome' = "exhausted" /\ result.errcode # 0 /\ job_attempt = 10
    /\ Finished =>
          \/ Finished' /\ UNCHANGED <<log, job_attempt, outcome>>
          \/ log' = <<>> /\ job_attempt' = 0 /\ pc' \in {"check", "close", "reopen", "idle"}

C3_Transitions == [][C3_Step]_vars

C3_Witness == SucceededAt(7) /\ runs = 2

(***************************************************************************)
(* C4: provided every actuator call and every sleep returns, a started     *)
(* retry sequence always reaches SUCCESS or EXHAUSTED, whatever the        *)
(* attempt outcomes, and EXHAUSTED only after 10 failed attempts.          *)
(***************************************************************************)
C4_Terminates ==
    /\ Attempting ~> Finished
    /\ [](Exhausted => (\A k \in 1..10 : Failed(k)) /\ Len(Sel({"ret"})) = 10)

C4_Witness == Exhausted /\ runs = 2 /\ Len(Sel({"ret"})) = 10

(***************************************************************************)
(* C5: a run with 5 failed attempts sends the escalation email exactly     *)
(* once, after the failure message of attempt 5 and before the wait that   *)
(* precedes attempt 6, carrying the lock id and the error of attempt 5;    *)
(* a run without 5 failed attempts sends no email.                         *)
(***************************************************************************)
FailureHandled(k) == Failed(k) /\ ~(pc = "returned" /\ job_attempt = k)

C5_Escalation ==
    /\ ~FailureHandled(5) => Sel({"email"}) = <<>>
    /\ FailureHandled(5) =>
          /\ Len(Sel({"email"})) = 1
          /\ LET e == Pos("email", 5)
             IN  /\ Pos("tg_fail", 5) < e
                 /\ log[e].txt = log[Pos("ret", 5)].txt
                 /\ log[e].id = LOCK_ID /\ LOCK_ID # ""
                 /\ \A i \in Positions("sleep", 5) \cup Positions("call", 6) : e < i
    /\ \A k \in 1..5 : Succeeded(k) => Sel({"email"}) = <<>>

C5_Witness == SucceededAt(6) /\ Len(Sel({"email"})) = 1

(***************************************************************************)
(* C6 (as stated): when all 10 attempts fail, one final critical           *)
(* notification goes out after the 10th failure on the chat channel and    *)
(* on the email channel, carrying last_error.                              *)
(***************************************************************************)
C6_FinalOnBothChannels ==
    Exhausted =>
        /\ Len(Sel({"tg_final"})) = 1
        /\ Pos("tg_fail", 10) < Pos("tg_final", 10)
        /\ log[Pos("tg_final", 10)].txt = last_error
        /\ \E i \in Positions("email", 10) :
              Pos("tg_fail", 10) < i /\ log[i].txt = last_error

(***************************************************************************)
(* C6 (amended): when all 10 attempts fail, one final critical             *)
(* notification goes out after the 10th failure on the chat channel only,  *)
(* as the last event of the run, carrying the error of attempt 10; no      *)
(* email is sent at exhaustion.                                            *)
(***************************************************************************)
C6_FinalOnChatOnly ==
    Exhausted =>
        /\ Len(Sel({"tg_final"})) = 1
        /\ Pos("tg_final", 10) = Len(log)
        /\ Pos("tg_fail", 10) = Len(log) - 1
        /\ log[Len(log)].txt = log[Pos("ret", 10)].txt
        /\ log[Len(log)].txt = last_error
        /\ Positions("email", 10) = {}
        /\ \A i \in 1..Len(log) : log[i].ev = "email" => i < Pos("call", 6)

C6_Witness == Exhausted /\ log[Len(log)].ev = "tg_final"

(***************************************************************************)
(* C7: a run in which all 10 attempts fail calls the chat sink exactly 13  *)
(* times (10 failure messages, one after the 3rd failure, one at the 5th   *)
(* failure, one final message) and the email sink exactly once.            *)
(***************************************************************************)
C7_Counts ==
    Exhausted =>
        /\ Len(Sel(TgKinds)) = 13
        /\ Len(Sel({"tg_fail"})) = 10
        /\ \A k \in 1..10 : Cardinality(Positions("tg_fail", k)) = 1
        /\ Len(Sel({"tg_after3"})) = 1
        /\ Pos("tg_after3", 3) = Pos("tg_fail", 3) + 1
        /\ Len(Sel({"tg_after5"})) = 1
        /\ Pos("tg_after5", 5) = Pos("tg_fail", 5) + 1
        /\ Len(Sel({"tg_final"})) = 1
        /\ Len(Sel({"email"})) = 1

C7_Witness == Exhausted /\ Len(Sel(TgKinds)) = 13 /\ runs = 1

(***************************************************************************)
(* C8 (as stated): for k in {1, 2, 3}, a run whose first k-1 attempts fail *)
(* and whose attempt k succeeds sends k-1 failure messages followed by one *)
(* success message and nothing else on the chat channel, sleeps exactly    *)
(* the first k-1 entries of [30, 60], and sends no email.                  *)
(***************************************************************************)
ChatOfEarlySuccess(k) ==
    /\ Len(Sel(TgKinds)) = k
    /\ \A j \in 1..(k - 1) : Sel(TgKinds)[j] = Ev("tg_fail", j, 0, log[Pos("ret", j)].txt, "")
    /\ Sel(TgKinds)[k] = Ev("tg_success", k, 0, "", "")
    /\ Sel({"email"}) = <<>>

C8_SleepsOfRun ==
    \A k \in 1..3 :
        SucceededAt(k) =>
            /\ ChatOfEarlySuccess(k)
            /\ AllSleeps = SubSeq(<<30, 60>>, 1, k - 1)

(***************************************************************************)
(* C8 (amended): ... job itself sleeps exactly the first k-1 entries of    *)
(* [30, 60], one after each failed attempt; the sleeps unlock_lock makes   *)
(* between the HTTP requests of one attempt come on top of these.          *)
(***************************************************************************)
C8_SleepsOfJob ==
    \A k \in 1..3 :
        SucceededAt(k) =>
            /\ ChatOfEarlySuccess(k)
            /\ JobSleeps = SubSeq(<<30, 60>>, 1, k - 1)
            /\ \A j \in 1..(k - 1) : Pos("ret", j) < Pos("sleep", j) /\ Pos("sleep", j) < Pos("call", j + 1)

C8_Witness == SucceededAt(3) /\ JobSleeps = <<30, 60>> /\ Len(AllSleeps) > 2

(***************************************************************************)
(* C9 (as stated): an exception raised by an actuator call during attempt  *)
(* k < 10 never escapes job; it is recorded as the failure of attempt k in *)
(* last_error and the run proceeds to the wait and attempt k+1.            *)
(***************************************************************************)
ExceptionIn(k) == \E i \in Positions("req", k) : log[i].txt = "exception"

Handled(k) == Positions("ret", k) # {} /\ ~(pc = "returned" /\ job_attempt = k)

\* After the failure of attempt k: its failure message carries its error, and
\* job waits and calls attempt k+1.
ProceedsAfter(k) ==
    /\ Failed(k)
    /\ Positions("tg_fail", k) # {}
    /\ log[Pos("tg_fail", k)].txt = log[Pos("ret", k)].txt
    /\ Pos("ret", k) < Pos("tg_fail", k)
    /\ \/ pc = "job_sleep" /\ job_attempt = k /\ last_error = log[Pos("ret", k)].txt
       \/ /\ Positions("sleep", k) # {} /\ Positions("call", k + 1) # {}
          /\ Pos("tg_fail", k) < Pos("sleep", k)
          /\ Pos("sleep", k) + 1 = Pos("call", k + 1)

C9_ExceptionFailsAttempt ==
    /\ pc # "raised"
    /\ \A k \in 1..9 : (ExceptionIn(k) /\ Handled(k)) => ProceedsAfter(k)

(***************************************************************************)
(* C9 (amended): an exception raised by an HTTP request during attempt k   *)
(* never escapes job: unlock_lock counts it as one failed request and, if  *)
(* it was not the third, sleeps and sends the next request, which may      *)
(* still make attempt k succeed.  When all three requests of attempt k     *)
(* (k < 10) have failed, the error unlock_lock returns is recorded in      *)
(* last_error and the run proceeds to the wait and attempt k+1.            *)
(***************************************************************************)
C9_ExceptionIsFailedRequest ==
    /\ pc # "raised"
    /\ \A i \in 1..Len(log) :
          (log[i].ev = "req" /\ log[i].txt = "exception") =>
              IF log[i].n < 3
              THEN \/ i = Len(log) /\ pc = "api_sleep"
                   \/ /\ i + 1 = Len(log) => pc = "http"
                      /\ log[i + 1] = Ev("api_sleep", log[i].k, <<30, 60>>[log[i].n], "", "")
                      /\ i + 2 <= Len(log) => (log[i + 2].ev = "req" /\ log[i + 2].n = log[i].n + 1)
              ELSE log[i + 1] = Ev("ret", log[i].k, -1, ERR_3_ATTEMPTS, "")
    /\ \A k \in 1..9 :
          (ExceptionIn(k) /\ Handled(k)) =>
              \/ ProceedsAfter(k) /\ Cardinality(Positions("req", k)) = 3
              \/ Succeeded(k) /\ Finished /\ outcome = "success" /\ job_attempt = k

C9_Witness ==
    \E k \in 1..9 : ExceptionIn(k) /\ Failed(k) /\ Positions("call", k + 1) # {}

(***************************************************************************)
(* C10: the attempts and waits of a run do not depend on the deliveries:   *)
(* no delivery outcome of the chat or email sink raises into job, every    *)
(* notification due is issued, and the calls, requests and sleeps follow   *)
(* the same schedule whether or not deliveries have failed.                *)
(***************************************************************************)
ApiSleepsOf(k) == Durations(SelectSeq(log, LAMBDA e : e.ev = "api_sleep" /\ e.k = k))

C10_SinkFailuresHarmless ==
    /\ pc # "raised"
    /\ pc = "returned" =>
          \A ds \in [1..Len(PendingMsgs) -> Delivery] :
              FirstRaise(PendingMsgs, ds) = 0 /\ Issued(PendingMsgs, ds) = PendingMsgs
    /\ job_attempt >= 1 =>
          /\ JobTrace = ExpectedJobTrace(job_attempt)
          /\ \A k \in 1..(job_attempt - 1) :
                /\ Cardinality(Positions("req", k)) = 3
                /\ ApiSleepsOf(k) = <<30, 60>>
                /\ Cardinality(Positions("tg_fail", k)) = 1
    /\ Exhausted => Len(Sel(TgKinds) \o Sel({"email"})) = 14

C10_Witness == Exhausted /\ tg_failed /\ email_failed

(***************************************************************************)
(* The schedule check: what a call of job did with the clock reading and   *)
(* the configuration it loaded.                                            *)
(***************************************************************************)
Monday0900 == [day |-> "monday", time |-> T0900]

\* job has returned without touching the lock or the sinks.
ReturnsUntouched ==
    /\ pc' = "idle"
    /\ runs' = runs
    /\ token' = FALSE
    /\ job_attempt' = 0
    /\ log' = <<>>

(***************************************************************************)
(* C11: when the configuration job has loaded has schedule_enabled false,  *)
(* job returns without a token retrieval, an actuator call or a            *)
(* notification, whatever the day and the time.                            *)
(***************************************************************************)
C11_Step ==
    (pc = "check" /\ ~cfg.schedule_enabled) =>
        (ReturnsUntouched /\ outcome' = "disabled")

C11_DisabledDoesNothing == [][C11_Step]_vars

C11_Witness ==
    /\ pc = "idle" /\ outcome = "disabled"
    /\ now = Monday0900
    /\ cfg = Config(FALSE, "Pn" :> T0900, "Pn" :> <<>>)

(***************************************************************************)
(* C12: on a day whose open_times entry is null or absent, job never       *)
(* starts an unlock sequence, at any time of that day, whatever the breaks *)
(* configured and whatever the earlier tasks left behind.                  *)
(***************************************************************************)
DayOff(c, n) ==
    \/ day_mapping[n.day] \notin DOMAIN c.open_times
    \/ c.open_times[day_mapping[n.day]] = None

C12_Step ==
    (pc = "check" /\ DayOff(cfg, now)) =>
        (ReturnsUntouched /\ outcome' \in {"disabled", "day_off"})

C12_DayOffNeverFires == [][C12_Step]_vars

C12_Witness ==
    /\ pc = "idle" /\ outcome = "day_off"
    /\ now = Monday0900
    /\ cfg = Config(TRUE, "Pn" :> None, "Pn" :> <<T0900>>)
    /\ runs > 0

(***************************************************************************)
(* Times of day as minutes since midnight, and the half-open reading of a  *)
(* break interval, [start, end).                                           *)
(***************************************************************************)
DigitValue(c) == (CHOOSE i \in 1..Len(Digits) : Digits[i] = c) - 1

Minutes(s) ==
    (DigitValue(s[1]) * 10 + DigitValue(s[2])) * 60 + DigitValue(s[4]) * 10 + DigitValue(s[5])

BreaksOf(c, n) == Get(c.breaks, day_mapping[n.day], <<>>)

IsInterval(e) ==
    /\ Len(Split(e)) = 2
    /\ IsTimeFormat(Split(e)[1])
    /\ IsTimeFormat(Split(e)[2])

Within(e, t) ==
    /\ IsInterval(e)
    /\ Minutes(Split(e)[1]) <= Minutes(t)
    /\ Minutes(t) < Minutes(Split(e)[2])

EndsAt(e, t) == IsInterval(e) /\ Minutes(Split(e)[2]) = Minutes(t)

InBreak(c, n) == \E i \in 1..Len(BreaksOf(c, n)) : Within(BreaksOf(c, n)[i], n.time)

AllIntervals(c, n) == \A i \in 1..Len(BreaksOf(c, n)) : IsInterval(BreaksOf(c, n)[i])

\* job has ended without a token retrieval, a call or a notification.
DoesNotFire ==
    /\ pc' \in {"idle", "raised"}
    /\ runs' = runs
    /\ token' = FALSE
    /\ log' = <<>>

(***************************************************************************)
(* C13: for every break start-end of the current day and every current     *)
(* time t with start <= t < end, job does not fire, also when t is the     *)
(* day's open time and also when t is the break's start.                   *)
(***************************************************************************)
C13_Step ==
    (pc = "check" /\ InBreak(cfg, now)) =>
        /\ DoesNotFire
        /\ (cfg.schedule_enabled /\ ~DayOff(cfg, now) /\ AllIntervals(cfg, now)) =>
              (pc' = "idle" /\ outcome' = "in_break")

C13_NoFireInBreak == [][C13_Step]_vars

C13_Witness ==
    /\ pc = "idle" /\ outcome = "in_break"
    /\ now = Monday0900
    /\ cfg = Config(TRUE, "Pn" :> T0900, "Pn" :> <<Interval(T0900, T0901)>>)

\* The open time job compares the clock with, when the day has one.
OpenTimeOf(c, n) == c.open_times[day_mapping[n.day]]

\* job goes on to the token retrieval.
Fires == runs' = runs + 1

(***************************************************************************)
(* C14: when the current time equals the end of a break of the current day *)
(* and also the day's open time (schedule enabled, no break holding the    *)
(* time in [start, end)), job fires: the break end is exclusive.           *)
(***************************************************************************)
C14_Step ==
    ( /\ pc = "check"
      /\ cfg.schedule_enabled
      /\ ~DayOff(cfg, now)
      /\ AllIntervals(cfg, now)
      /\ \E i \in 1..Len(BreaksOf(cfg, now)) : EndsAt(BreaksOf(cfg, now)[i], now.time)
      /\ ~InBreak(cfg, now)
      /\ now.time = OpenTimeOf(cfg, now) ) => Fires

C14_FiresAtBreakEnd == [][C14_Step]_vars

(***************************************************************************)
(* C15: with the schedule enabled and no break holding the current time,   *)
(* job starts the unlock sequence if and only if the current HH:MM equals  *)
(* the open time configured for the current day: not a minute earlier or   *)
(* later, and a call that comes after the open minute does not catch up.   *)
(***************************************************************************)
AtOpenTime(c, n) == ~DayOff(c, n) /\ n.time = OpenTimeOf(c, n)

ExactMatch == (Fires <=> AtOpenTime(cfg, now)) /\ (~Fires => DoesNotFire)

C15_Step ==
    ( /\ pc = "check"
      /\ cfg.schedule_enabled
      /\ AllIntervals(cfg, now)
      /\ ~InBreak(cfg, now) ) => ExactMatch

C15_FiresExactlyAtOpenTime == [][C15_Step]_vars

\* The same, away from the end minute of every break of the day.
ExactMatchAwayFromBreakEnds ==
    [][( /\ pc = "check"
         /\ cfg.schedule_enabled
         /\ AllIntervals(cfg, now)
         /\ ~InBreak(cfg, now)
         /\ \A i \in 1..Len(BreaksOf(cfg, now)) : ~EndsAt(BreaksOf(cfg, now)[i], now.time) )
       => ExactMatch]_vars

(***************************************************************************)
(* C16: a malformed day label, open-time string or break-interval string   *)
(* of the configuration never makes job or the schedule setup of main      *)
(* raise: the thread is never left with a ValueError, the entry counts as  *)
(* no match or is skipped, and the polling loop keeps running.             *)
(***************************************************************************)
C16_MalformedNeverRaises == ~(pc = "raised" /\ outcome = "ValueError")

(***************************************************************************)
(* C17: if the token retrieval fails when job fires, exactly one chat      *)
(* notification is sent, no actuator call and no wait is made, job returns *)
(* normally, and the scheduler goes on calling the tasks: the next firing  *)
(* of job proceeds to attempt 1.                                           *)
(***************************************************************************)
C17_Step ==
    /\ (pc = "check" /\ Fires /\ ~token') =>
          /\ log' = <<Ev("tg_no_token", 0, 0, "", "")>>
          /\ pc' = "idle"
          /\ outcome' = "no_token"
          /\ job_attempt' = 0
          /\ UNCHANGED <<jobs, due, config_file>>
    /\ (pc = "check" /\ outcome = "no_token" /\ Fires /\ token' /\ LOCK_ID # "") =>
          /\ pc' = "http"
          /\ log' = <<Ev("call", 1, 0, "", "")>>

C17_Abandoned ==
    (outcome = "no_token" /\ pc = "idle") =>
        /\ Len(log) = 1
        /\ Len(Sel(TgKinds)) = 1
        /\ Sel({"call", "req", "ret", "sleep", "api_sleep", "email"}) = <<>>
        /\ ENABLED JobInvoke
        /\ ENABLED log_heartbeat

C17_TokenFailureAbandons == [][C17_Step]_vars /\ []C17_Abandoned

C17_Witness ==
    /\ pc = "check" /\ outcome = "no_token"
    /\ now = Monday0900
    /\ runs = 1

(***************************************************************************)
(* C18: exhaustion is not fatal: after the 10th failure job returns        *)
(* normally to the polling loop, which goes on calling the tasks, and the  *)
(* next firing of job starts a fresh sequence at attempt 1.                *)
(***************************************************************************)
C18_Step ==
    /\ (pc = "returned" /\ job_attempt = 10 /\ result.errcode # 0) =>
          /\ pc' = "idle"
          /\ outcome' = "exhausted"
          /\ UNCHANGED <<jobs, due, config_file>>
    /\ (pc = "check" /\ outcome = "exhausted" /\ Fires /\ token' /\ LOCK_ID # "") =>
          /\ pc' = "http"
          /\ job_attempt' = 1
          /\ attempt' = 0
          /\ last_error' = ""
          /\ result' = NoResult
          /\ log' = <<Ev("call", 1, 0, "", "")>>

C18_LoopResumes ==
    Exhausted =>
        /\ ENABLED JobInvoke
        /\ ENABLED log_heartbeat
        /\ ENABLED close_start
        /\ ENABLED reopen_start

C18_ExhaustionNotFatal == [][C18_Step]_vars /\ []C18_LoopResumes

C18_Witness ==
    /\ pc = "check" /\ outcome = "exhausted"
    /\ last_error = ERR_3_ATTEMPTS
    /\ now = Monday0900
    /\ runs = 1

(***************************************************************************)
(* C19: at most one scheduled task runs at any time: a task (job, break    *)
(* close, break reopen, heartbeat) starts only from the idle polling loop, *)
(* while a retry sequence is in flight every step is a step of that        *)
(* sequence, and the tasks that fall due meanwhile stay due until it has   *)
(* returned, when they can run.                                            *)
(***************************************************************************)
Running == pc \in {"check", "close", "reopen", "http", "api_sleep", "returned", "job_sleep"}

IsPrefix(a, b) == Len(a) <= Len(b) /\ SubSeq(b, 1, Len(a)) = a

\* A task starts in this step.
TaskStarts ==
    \/ pc' \in {"check", "close", "reopen"} /\ pc' # pc
    \/ outcome' = "heartbeat" /\ (outcome # "heartbeat" \/ log' # log)
    \/ due' # due /\ ~(due \subseteq due')

\* The process is restarted by the bot in this step.
Restarted == pc' = "boot"

C19_Step ==
    /\ TaskStarts => (pc = "idle" \/ Restarted)
    /\ (Running /\ ~Restarted) =>
          /\ due \subseteq due'
          /\ IsPrefix(log, log')
          /\ UNCHANGED <<now, cfg, jobs>>
          /\ pc = "check" => pc' \in {"check", "idle", "raised", "http"}
          /\ pc \in {"close", "reopen"} => pc' \in {pc, "idle"}
          /\ Attempting =>
                /\ pc' \in {"http", "api_sleep", "returned", "job_sleep", "idle", "raised"}
                /\ job_attempt' \in {job_attempt, job_attempt + 1}
                /\ runs' = runs

C19_DeferredCanRun ==
    /\ due \subseteq jobs
    /\ pc = "idle" =>
          /\ "job" \in due => ENABLED JobInvoke
          /\ "close" \in due => ENABLED close_start
          /\ "reopen" \in due => ENABLED reopen_start
          /\ "heartbeat" \in due => ENABLED log_heartbeat

C19_OneTaskAtATime == [][C19_Step]_vars /\ []C19_DeferredCanRun

C19_Witness ==
    /\ pc = "idle" /\ outcome = "success" /\ job_attempt = 2
    /\ due = {"job", "heartbeat"}

(***************************************************************************)
(* C20 (as stated): once a retry sequence has started, a change of the     *)
(* configuration made while it is in flight (schedule disabled, open time  *)
(* changed, break added) does not stop or alter it: the attempts continue  *)
(* until success or exhaustion.                                            *)
(***************************************************************************)
RunUntouched == UNCHANGED <<pc, log, runVars, outcome, runs, now, cfg, jobs, due>>

C20_ChangeStep ==
    (Attempting /\ config_file' # config_file) => (Attempting' /\ RunUntouched)

C20_ConfigChangeNeverStops == [][C20_ChangeStep]_vars

(***************************************************************************)
(* C20 (amended): once a retry sequence has started, job does not read the *)
(* configuration again: a change of the configuration file while the      *)
(* sequence is in flight leaves the sequence as it is, and the attempts    *)
(* continue on the schedule until success or exhaustion, unless the        *)
(* process is restarted.  The bot follows every configuration change with  *)
(* a restart of the auto_unlocker container; when that restart goes        *)
(* through, the process starts again and the sequence is gone.             *)
(***************************************************************************)
C20_Step ==
    /\ (Attempting /\ config_file' # config_file) =>
          \/ Attempting' /\ RunUntouched
          \/ Restarted /\ log' = <<>> /\ job_attempt' = 0 /\ jobs' = {} /\ due' = {}
    /\ (Attempting /\ ~Restarted) =>
          /\ Attempting' \/ Finished'
          /\ IsPrefix(log, log')
          /\ UNCHANGED <<now, cfg>>

C20_OnSchedule ==
    Attempting =>
        /\ cfg.schedule_enabled /\ AtOpenTime(cfg, now)
        /\ JobTrace = ExpectedJobTrace(job_attempt)

C20_SnapshotUntilRestart == [][C20_Step]_vars /\ []C20_OnSchedule

C20_Witness ==
    /\ pc = "http" /\ job_attempt = 2
    /\ cfg.schedule_enabled
    /\ ~config_file.schedule_enabled

(***************************************************************************)
(* The clock during a run: job read it once (now), and since then the      *)
(* thread has slept the durations recorded in the log; requests and        *)
(* notifications take no time.                                             *)
(***************************************************************************)
SleepsBefore(i) ==
    SelectSeq(SubSeq(log, 1, i - 1), LAMBDA e : e.ev \in {"sleep", "api_sleep"})

\* Seconds slept before event i of the log.
ElapsedBefore(i) == Sum(Durations(SleepsBefore(i)))

\* Minute of the day at which event i of the log happened.
ClockAt(i) == Minutes(now.time) + ElapsedBefore(i) \div 60

\* Minute m lies in the break e, start <= m < end.
WithinAt(e, m) ==
    /\ IsInterval(e)
    /\ Minutes(Split(e)[1]) <= m
    /\ m < Minutes(Split(e)[2])

\* The unlock requests sent to the lock API during the run.
UnlockRequests == {i \in 1..Len(log) : log[i].ev = "req"}

(***************************************************************************)
(* C21: no unlock command is issued inside a break window of the current   *)
(* day: every unlock request of the process, from whatever attempt of a    *)
(* retry sequence, is sent at a time outside [start, end) of every break   *)
(* configured for that day.                                                *)
(***************************************************************************)
C21_NoUnlockInsideBreak ==
    \A i \in UnlockRequests :
        \A j \in 1..Len(BreaksOf(cfg, now)) : ~WithinAt(BreaksOf(cfg, now)[j], ClockAt(i))

(***************************************************************************)
(* C22: for a configured break of a day that has an open time, the task    *)
(* main registered at the break's start issues a lock command, and the     *)
(* task registered at its end an unlock command, whenever the task runs    *)
(* and obtains a token.                                                    *)
(***************************************************************************)
Commands(kind) == {i \in 1..Len(log) : log[i].ev = kind}

C22_BreakCommandsIssued ==
    /\ (pc = "idle" /\ outcome = "close" /\ token) => Commands("lock_cmd") # {}
    /\ (pc = "idle" /\ outcome = "reopen" /\ token) => Commands("unlock_cmd") # {}

(***************************************************************************)
(* C23: no unlock attempt is made after the configured max_retry_time of   *)
(* the current day: every unlock request of a retry sequence is sent at a  *)
(* minute not later than max_retry_time.                                   *)
(***************************************************************************)
C23_NoAttemptAfterMaxRetryTime ==
    \A i \in UnlockRequests : ClockAt(i) <= Minutes(cfg.max_retry_time)

(***************************************************************************)
(* C24: the lock id of a scheduled unlock is the one resolve_lock_id       *)
(* gives: TTLOCK_LOCK_ID when it is configured, else the first lock of the *)
(* account's lock list.  So whenever job fires and has a token, and the    *)
(* account has a lock, it goes on to attempt 1 with that id.               *)
(***************************************************************************)
C24_Step ==
    ( /\ pc = "check"
      /\ Fires
      /\ token'
      /\ resolve_lock_id(LOCK_ID, AccountLocks) # "" ) =>
        (pc' = "http" /\ job_attempt' = 1)

C24_LockIdResolved == [][C24_Step]_vars

(***************************************************************************)
(* The fire decision written as a function of the clock reading and the    *)
(* configuration, with no other argument.                                  *)
(***************************************************************************)
Decision(n, c) ==
    LET day == Get(day_mapping, n.day, None)
        open == Get(c.open_times, day, None)
        scan == break_scan(Get(c.breaks, day, <<>>), n.time)
    IN  IF ~c.schedule_enabled THEN "disabled"
        ELSE IF open = None THEN "day_off"
        ELSE IF scan # "clear" THEN scan
        ELSE IF n.time = open THEN "fire"
        ELSE "no_match"

(***************************************************************************)
(* C25: the fire decision is a function of (now, config) only: every call  *)
(* of job decides what Decision gives for its clock reading and the        *)
(* configuration it loaded, whatever the earlier tasks and runs left in    *)
(* the process.  The one other thing the decision reads, the module global *)
(* TIME_SHIFT, is None throughout the life of the process.                 *)
(***************************************************************************)
C25_Step ==
    pc = "check" =>
        /\ Fires <=> Decision(now, cfg) = "fire"
        /\ ~Fires => outcome' = Decision(now, cfg)

Shifted(c, n) == [c EXCEPT !.open_times[day_mapping[n.day]] = TIME_SHIFT]

C29_Step ==
    (pc = "check" /\ TIME_SHIFT # None /\ ~DayOff(cfg, now)) =>
        /\ Fires <=> Decision(now, Shifted(cfg, now)) = "fire"
        /\ Fires => now.time = TIME_SHIFT
        /\ (now.time = OpenTimeOf(cfg, now) /\ OpenTimeOf(cfg, now) # TIME_SHIFT) => ~Fires

C29_OneSuccessMessage ==
    (TIME_SHIFT # None /\ SucceededAt(1)) =>
        /\ now.time = TIME_SHIFT
        /\ Sel(TgKinds \cup {"email"}) = <<Ev("tg_success", 1, 0, "", "")>>
        /\ Sel({"sleep"}) = <<>>

C29_ShiftReplacesOpenTime == [][C29_Step]_vars /\ []C29_OneSuccessMessage

C29_Witness ==
    /\ SucceededAt(1)
    /\ TIME_SHIFT = T0901
    /\ now = [day |-> "monday", time |-> T0901]
    /\ cfg = Config(TRUE, "Pn" :> T0900, "Pn" :> <<>>)
    /\ Len(Sel({"req"})) = 1

(***************************************************************************)
(* The configuration functions applied to the files and configurations     *)
(* above: load_config, save_config, and the two reads job makes (the clock *)
(* through get_now, then load_config).                                     *)
(***************************************************************************)
ConfInit ==
    /\ pc = "boot"
    /\ job_attempt = 0
    /\ attempt = 0
    /\ result = NoResult
    /\ last_error = ""
    /\ token = FALSE
    /\ LOCK_ID = "lock1"
    /\ outcome = "none"
    /\ log = <<>>
    /\ runs = 0
    /\ exceptions = 0
    /\ tg_failed = FALSE
    /\ email_failed = FALSE
    /\ scenario = "retry"
    /\ config_file = RetryConfig
    /\ TIME_SHIFT = None
    /\ jobs = {}
    /\ due = {}
    /\ now = NoNow
    /\ cfg = NoCfg
    /\ json_file \in Files
    /\ loaded = NotLoaded
    /\ saved = Nothing
    /\ clock_tz = ""
    /\ call = NoCall
    /\ writing = NoWrite
    /\ trigger = NoTrigger
    /\ bot = NoBot

\* load_config() called on the file as it is.
LoadConfig ==
    /\ loaded' = load_config(json_file)
    /\ UNCHANGED <<json_file, saved, clock_tz, call, writing, trigger, bot, procVars>>

\* save_config(c): the file is rewritten, or the write fails and the
\* exception goes to the caller.
SaveConfig(c, w) ==
    /\ json_file' = save_config(c, json_file, w)
    /\ saved' = IF w = "ok" THEN c ELSE Nothing
    /\ loaded' = NotLoaded
    /\ clock_tz' = ""
    /\ UNCHANGED <<call, writing, trigger, bot, procVars>>

\* job up to "cfg = load_config()": now = ttlock_api.get_now(), which ends
\* job with an exception when the name is not a zone, then the configuration.
job_reads ==
    /\ clock_tz' = get_now_zone(json_file)
    /\ loaded' = IF get_now_zone(json_file) = "raise" THEN NotLoaded
                 ELSE load_config(json_file)
    /\ UNCHANGED <<json_file, saved, call, writing, trigger, bot, procVars>>

ConfNext ==
    \/ LoadConfig
    \/ \E c \in SavedConfigs, w \in WriteOutcomes : SaveConfig(c, w)
    \/ job_reads

ConfSpec == ConfInit /\ [][ConfNext]_vars

(***************************************************************************)
(* C26.  As stated: save_config(c) followed by load_config() returns a     *)
(* mapping structurally identical to c, with the same keys.                *)
(***************************************************************************)
C26_RoundTripIdentical ==
    (saved # Nothing /\ loaded # NotLoaded) => loaded = saved

\* C26 (amended): after save_config(c) wrote the file, load_config() returns
\* c's entries unchanged (day labels, time strings with the null entries,
\* break lists in order) under c's keys, and the built-in default under each
\* default key c does not have.
C26_RoundTripUnderDefaults ==
    (saved # Nothing /\ loaded # NotLoaded) =>
        /\ loaded.t = "dict"
        /\ DOMAIN loaded.v = DOMAIN saved.v \cup DOMAIN default.v
        /\ \A k \in DOMAIN saved.v : loaded.v[k] = saved.v[k]
        /\ \A k \in DOMAIN default.v \ DOMAIN saved.v : loaded.v[k] = default.v[k]

C26_Witness ==
    /\ saved # Nothing
    /\ loaded # NotLoaded
    /\ "max_retry_time" \notin DOMAIN saved.v
    /\ loaded.v["max_retry_time"] = PyStr(T2100)
    /\ loaded.v["open_times"] = OpenTimesSaved
    /\ loaded.v["breaks"] = BreaksSaved

(***************************************************************************)
(* C27.  load_config never raises; a key missing from the file takes its   *)
(* built-in default (weekdays 09:00, weekend off, no breaks, schedule      *)
(* enabled, the fallback timezone), a key present with a non-null value    *)
(* overrides it, and a missing or unparsable file yields the whole default.*)
(***************************************************************************)
BuiltInDefault(c) ==
    /\ DOMAIN c.v = {"timezone", "schedule_enabled", "max_retry_time", "open_times", "breaks"}
    /\ c.v["timezone"] = PyStr(KRASNOYARSK)
    /\ c.v["schedule_enabled"] = PyBool(TRUE)
    /\ c.v["max_retry_time"] = PyStr(T2100)
    /\ \A d \in DayLabels :
        /\ c.v["open_times"].v[d] = IF d \in {"Sb", "Vs"} THEN PyNone ELSE PyStr(T0900)
        /\ c.v["breaks"].v[d] = PyList(<<>>)

C27_LoadConfigTotal ==
    loaded # NotLoaded =>
        /\ loaded.t = "dict"
        /\ (json_file.t # "json" => BuiltInDefault(loaded))
        /\ (json_file.t = "json" /\ json_file.v.t = "object") =>
            /\ BuiltInDefault(
                 PyDict([k \in DOMAIN default.v |->
                           IF k \in DOMAIN json_file.v.v THEN default.v[k] ELSE loaded.v[k]]))
            /\ \A k \in DOMAIN json_file.v.v :
                json_file.v.v[k] # JNull => loaded.v[k] = json_loads(json_file.v.v[k])

C27_Witness ==
    /\ loaded # NotLoaded
    /\ json_file.t = "json"
    /\ json_file.v.t = "object"
    /\ DOMAIN json_file.v.v = {"schedule_enabled", "max_retry_time"}
    /\ loaded.v["schedule_enabled"] = PyBool(FALSE)
    /\ loaded.v["timezone"] = PyStr(KRASNOYARSK)

(***************************************************************************)
(* C28.  The timezone in which job reads the clock is the timezone of the  *)
(* configuration load_config returns to it, also when the file has no      *)
(* timezone key or cannot be read.                                         *)
(***************************************************************************)
C28_ClockInConfigTimezone ==
    (clock_tz # "" /\ loaded # NotLoaded) => loaded.v["timezone"] = PyStr(clock_tz)

(***************************************************************************)
(* ttlock_api.unlock_lock and ttlock_api.lock_lock called directly, with   *)
(* or without a send_telegram callback that returns.  The two bodies are   *)
(* the same text up to the URL and the wording of the messages.            *)
(***************************************************************************)
LockOperations == {"unlock_lock", "lock_lock"}

ERR_LOCK_3_ATTEMPTS == "failed to lock after 3 attempts"

\* One HTTP request of lock_lock, classified as unlock_lock classifies its own.
lock_request(o) ==
    CASE o = "ok"        -> "success"    \* errcode == 0: return {"errcode": 0, "errmsg": "OK", ...}
      [] o = "errcode"   -> "failed"     \* else branch: log, next iteration
      [] o = "exception" -> "failed"     \* except Exception: log, next iteration

Classify(fn, o) == IF fn = "unlock_lock" THEN unlock_request(o) ELSE lock_request(o)

error_notifications_errcode_only(send_telegram, o) ==
    IF send_telegram /\ o = "errcode" THEN <<Ev("send_telegram", 0, 0, "error", "")>> ELSE <<>>

\* "if send_telegram: send_telegram(...)" in the else branch and in the
\* except branch: what a failed request sends.
error_notifications(send_telegram, o) ==
    IF send_telegram THEN <<Ev("send_telegram", 0, 0, "error", "")>> ELSE <<>>

success_notifications_none(send_telegram) == <<>>

\* "if send_telegram: send_telegram(msg)" before the return of a success.
success_notifications(send_telegram) ==
    IF send_telegram THEN <<Ev("send_telegram", 0, 0, "success", "")>> ELSE <<>>

\* The dictionaries the two functions return.
SuccessResult(n) == [errcode |-> 0, errmsg |-> "OK", success |-> TRUE, attempt |-> n]

FailureResult(fn) ==
    [errcode |-> -1,
     errmsg |-> IF fn = "unlock_lock" THEN ERR_3_ATTEMPTS ELSE ERR_LOCK_3_ATTEMPTS,
     success |-> FALSE, attempt |-> 3]

ApiInit ==
    /\ pc = "boot"
    /\ job_attempt = 0
    /\ attempt = 0
    /\ result = NoResult
    /\ last_error = ""
    /\ token = FALSE
    /\ LOCK_ID = "lock1"
    /\ outcome = "none"
    /\ log = <<>>
    /\ runs = 0
    /\ exceptions = 0
    /\ tg_failed = FALSE
    /\ email_failed = FALSE
    /\ scenario = "retry"
    /\ config_file = RetryConfig
    /\ TIME_SHIFT = None
    /\ jobs = {}
    /\ due = {}
    /\ now = NoNow
    /\ cfg = NoCfg
    /\ json_file = FileMissing
    /\ loaded = NotLoaded
    /\ saved = Nothing
    /\ clock_tz = ""
    /\ call \in {[st |-> "request", fn |-> fn, send_telegram |-> cb, attempt |-> 0,
                  trace |-> <<>>, result |-> NoResult] :
                     fn \in LockOperations, cb \in BOOLEAN}
    /\ writing = NoWrite
    /\ trigger = NoTrigger
    /\ bot = NoBot

\* The try block of one iteration: the POST and what follows its outcome.
LockRequest ==
    /\ call.st = "request"
    /\ \E o \in HttpOutcomes :
        LET posted == Append(call.trace, Ev("req", 0, call.attempt + 1, o, LOCK_ID))
            c == Classify(call.fn, o)
        IN  call' =
              CASE c = "success" ->
                     [call EXCEPT !.st = "returned",
                                  !.trace = posted \o success_notifications(call.send_telegram),
                                  !.result = SuccessResult(call.attempt + 1)]
                [] c = "failed" /\ call.attempt + 1 < ApiRequests ->
                     [call EXCEPT !.st = "sleep",
                                  !.trace = posted \o error_notifications(call.send_telegram, o),
                                  !.attempt = call.attempt + 1]
                [] c = "failed" /\ call.attempt + 1 = ApiRequests ->
                     [call EXCEPT !.st = "returned",
                                  !.trace = posted \o error_notifications(call.send_telegram, o),
                                  !.result = FailureResult(call.fn)]
                [] c = "raise" ->
                     [call EXCEPT !.st = "raised", !.trace = posted]
    /\ UNCHANGED <<json_file, loaded, saved, clock_tz, writing, trigger, bot, procVars>>

\* "if attempt > 0: ... time.sleep(delay)" at the head of the next iteration.
LockSleep ==
    /\ call.st = "sleep"
    /\ call' = [call EXCEPT !.st = "request",
                            !.trace = Append(call.trace,
                                 Ev("sleep", 0, intervals[call.attempt + 1], "", ""))]
    /\ UNCHANGED <<json_file, loaded, saved, clock_tz, writing, trigger, bot, procVars>>

ApiNext == LockRequest \/ LockSleep

ApiSpec == ApiInit /\ [][ApiNext]_vars

(***************************************************************************)
(* C30.  As stated, for unlock_lock and lock_lock alike: when all requests *)
(* fail (errcode or exception) there are exactly 3 requests, the sleeps    *)
(* are [30, 60] with none before the first request or after the third, one *)
(* error notification is sent per failed request, no exception escapes,    *)
(* and the result is {errcode: -1, success: False, attempt: 3}.            *)
(***************************************************************************)
CallEvents(kind) == {i \in 1..Len(call.trace) : call.trace[i].ev = kind}

AllRequestsFailed ==
    /\ call.st \in {"returned", "raised"}
    /\ \A i \in CallEvents("req") : call.trace[i].txt # "ok"

ThreeRequestsTwoSleeps ==
    /\ call.st = "returned"
    /\ Cardinality(CallEvents("req")) = 3
    /\ \E i, j \in CallEvents("sleep") :
        /\ CallEvents("sleep") = {i, j}
        /\ i < j
        /\ call.trace[i].n = 30
        /\ call.trace[j].n = 60
        /\ \E a, b, c \in CallEvents("req") : a < i /\ i < b /\ b < j /\ j < c
    /\ call.result.errcode = -1
    /\ call.result.success = FALSE
    /\ call.result.attempt = 3

C30_NotificationPerFailure ==
    AllRequestsFailed =>
        /\ ThreeRequestsTwoSleeps
        /\ Cardinality(CallEvents("send_telegram")) = Cardinality(CallEvents("req"))

\* C30 (amended): for unlock_lock and lock_lock alike, when all requests fail
\* there are exactly 3 requests, the sleeps are [30, 60] between them, no
\* exception escapes and the result is {errcode: -1, success: False,
\* attempt: 3}; one error notification follows each failed request when a
\* send_telegram callback was passed, and none is sent when it was not.
C30_NotificationPerFailureIfCallback ==
    AllRequestsFailed =>
        /\ ThreeRequestsTwoSleeps
        /\ \A i \in CallEvents("send_telegram") : call.trace[i].txt = "error"
        /\ IF call.send_telegram
           THEN \A i \in CallEvents("req") :
                    i < Len(call.trace) /\ call.trace[i + 1].ev = "send_telegram"
           ELSE CallEvents("send_telegram") = {}

C30_Witness ==
    /\ AllRequestsFailed
    /\ call.fn = "lock_lock"
    /\ call.send_telegram
    /\ \E i, j \in CallEvents("req") :
        call.trace[i].txt = "errcode" /\ call.trace[j].txt = "exception"
    /\ call.result = FailureResult("lock_lock")

(***************************************************************************)
(* C31.  As stated, for unlock_lock and lock_lock alike and n in 1..3: if  *)
(* the first n-1 requests fail and request n returns errcode 0, there are  *)
(* exactly n requests, the sleeps are the first n-1 entries of [30, 60],   *)
(* n-1 error notifications are followed by one success notification, and   *)
(* the result is {errcode: 0, errmsg: "OK", success: True, attempt: n}.    *)
(***************************************************************************)
IsSleepEvent(e) == e.ev = "sleep"
IsNotification(e) == e.ev = "send_telegram"

CallSleeps ==
    [i \in 1..Len(SelectSeq(call.trace, IsSleepEvent)) |->
        SelectSeq(call.trace, IsSleepEvent)[i].n]

CallNotifications ==
    [i \in 1..Len(SelectSeq(call.trace, IsNotification)) |->
        SelectSeq(call.trace, IsNotification)[i].txt]

\* Request n succeeded after n-1 failed ones, and the call is over.
CallSucceededAt(n) ==
    /\ call.st \in {"returned", "raised"}
    /\ Cardinality(CallEvents("req")) = n
    /\ \A i \in CallEvents("req") :
        call.trace[i].txt = "ok" <=> call.trace[i].n = n

SuccessShape(n) ==
    /\ call.st = "returned"
    /\ CallSleeps = SubSeq(<<30, 60>>, 1, n - 1)
    /\ call.result = [errcode |-> 0, errmsg |-> "OK", success |-> TRUE, attempt |-> n]

C31_SuccessAfterFailures ==
    \A n \in 1..3 : CallSucceededAt(n) =>
        /\ SuccessShape(n)
        /\ CallNotifications = [i \in 1..n |-> IF i < n THEN "error" ELSE "success"]

\* C31 (amended): for unlock_lock and lock_lock alike and n in 1..3, if the
\* first n-1 requests fail and request n returns errcode 0, there are exactly
\* n requests, the sleeps are the first n-1 entries of [30, 60] and the result
\* is {errcode: 0, errmsg: "OK", success: True, attempt: n}; the n-1 error
\* notifications followed by one success notification are sent when a
\* send_telegram callback was passed, and nothing is sent when it was not.
C31_SuccessAfterFailuresIfCallback ==
    \A n \in 1..3 : CallSucceededAt(n) =>
        /\ SuccessShape(n)
        /\ CallNotifications =
             IF call.send_telegram
             THEN [i \in 1..n |-> IF i < n THEN "error" ELSE "success"]
             ELSE <<>>

C31_Witness ==
    /\ CallSucceededAt(3)
    /\ call.fn = "lock_lock"
    /\ call.send_telegram
    /\ CallSleeps = <<30, 60>>
    /\ CallNotifications = <<"error", "error", "success">>
    /\ \E i, j \in CallEvents("req") :
        call.trace[i].txt = "errcode" /\ call.trace[j].txt = "exception"

(***************************************************************************)
(* C35.  At every point of a retry run last_error is the error message of  *)
(* the most recent failed attempt (empty before the first failure); the    *)
(* failure notification of attempt k carries attempt k's message, the      *)
(* escalation email the 5th attempt's and the final exhaustion message the *)
(* 10th attempt's.                                                         *)
(***************************************************************************)
InRetryRun == pc \in {"http", "api_sleep", "returned", "job_sleep"} \/ Finished

\* The failed returns of unlock_lock that try_unlock has dealt with.
RecordedFailures ==
    {i \in 1..Len(log) :
        log[i].ev = "ret" /\ log[i].n # 0 /\ Positions("tg_fail", log[i].k) # {}}

C35_LastErrorIsLatestFailure ==
    InRetryRun =>
        /\ last_error =
             IF RecordedFailures = {} THEN ""
             ELSE log[CHOOSE i \in RecordedFailures : \A j \in RecordedFailures : j <= i].txt
        /\ \A i \in 1..Len(log) :
            /\ log[i].ev = "tg_fail" =>
                 (Failed(log[i].k) /\ log[i].txt = log[Pos("ret", log[i].k)].txt)
            /\ log[i].ev = "email" => (Failed(5) /\ log[i].txt = log[Pos("ret", 5)].txt)
            /\ log[i].ev = "tg_final" => (Failed(10) /\ log[i].txt = log[Pos("ret", 10)].txt)

C35_Witness ==
    /\ Exhausted
    /\ Cardinality(RecordedFailures) = 10
    /\ last_error = unlock_failed.errmsg
    /\ \E i, j \in 1..Len(log) : log[i].ev = "email" /\ log[j].ev = "tg_final"

(***************************************************************************)
(* C37.  job retrieves the access token once per run, before attempt 1,    *)
(* and every later attempt uses that token: no step of the retry sequence  *)
(* retrieves a token again, whatever failed before.                        *)
(***************************************************************************)
C37_Step ==
    /\ (pc = "check" /\ pc' = "http") => (token' /\ job_attempt' = 1 /\ attempt' = 0)
    /\ pc \in {"http", "api_sleep", "returned", "job_sleep"} => (token /\ token' = token)

C37_TokenRetrievedOnce == [][C37_Step]_vars

C37_Witness ==
    /\ pc = "http"
    /\ job_attempt = 10
    /\ attempt = 2
    /\ token
    /\ \A k \in 1..9 : Failed(k)

(***************************************************************************)
(* C38.  As stated: each of the 10 attempts calls unlock_lock once, each   *)
(* call makes up to 3 HTTP requests separated by sleeps of 30 s and 60 s,  *)
(* and a run in which every request fails issues exactly 30 requests and   *)
(* sleeps 5890 + 10*90 = 6790 seconds in total before it is exhausted.     *)
(***************************************************************************)
RequestsOfFailedRun ==
    /\ \A k \in 1..10 :
        /\ Cardinality(Positions("call", k)) = 1
        /\ Cardinality(Positions("req", k)) = 3
        /\ \A i \in Positions("req", k) : log[i].txt # "ok"
        /\ ApiSleepsOf(k) = <<30, 60>>
    /\ Len(Sel({"req"})) = 30
    /\ Len(Sel({"call"})) = 10

C38_Total6790 ==
    Exhausted => (RequestsOfFailedRun /\ Sum(AllSleeps) = 6790)

\* C38 (amended): the same calls, requests and sleeps; job's nine waits add up
\* to 5490 s and the ten calls sleep 90 s each, 5490 + 10*90 = 6390 s in total.
C38_Total6390 ==
    Exhausted =>
        /\ RequestsOfFailedRun
        /\ Sum(JobSleeps) = 5490
        /\ Sum(AllSleeps) = 6390

C38_Witness ==
    /\ Exhausted
    /\ Len(Sel({"req"})) = 30
    /\ Len(AllSleeps) = 29

(***************************************************************************)
(* C36.  If schedule_enabled is false when main starts, main registers no  *)
(* task and issues no actuator command while it stays false, re-reading    *)
(* the configuration after each 60 s sleep; once a re-read shows it        *)
(* enabled, main registers the open and break tasks of that configuration  *)
(* and enters the polling loop.                                            *)
(***************************************************************************)
OpenDays(c) == {d \in DOMAIN c.open_times \cap DayLabels : IsTimeFormat(c.open_times[d])}

ExpectedTasks(c) ==
    {"heartbeat"}
    \cup (IF OpenDays(c) # {} THEN {"job"} ELSE {})
    \cup (IF \E d \in OpenDays(c) : Get(c.breaks, d, <<>>) # <<>>
          THEN {"close", "reopen"} ELSE {})

NothingScheduled ==
    /\ jobs = {}
    /\ Sel({"req", "lock_cmd", "unlock_cmd"}) = <<>>

C36_Step ==
    /\ (pc = "boot" /\ pc' # "boot" /\ ~config_file.schedule_enabled) =>
          (pc' = "wait" /\ NothingScheduled')
    /\ (pc = "wait" /\ ~config_file.schedule_enabled /\ config_file' = config_file) =>
          (pc' \in {"wait", "boot"} /\ NothingScheduled')    \* "boot": the bot restarted the service
    /\ (pc = "wait" /\ pc' \notin {"wait", "boot"}) =>
          /\ config_file.schedule_enabled
          /\ pc' = "idle"
          /\ jobs' = ExpectedTasks(config_file)

C36_DisabledStartWaits == [][C36_Step]_vars

\* The same statement for configurations whose break entries all split in two.
C36_StepWellFormed ==
    "ValueError" \notin setup(config_file) => C36_Step

C36_WellFormedDisabledStartWaits == [][C36_StepWellFormed]_vars

(***************************************************************************)
(* The bot process rewrites the configuration file in place while the      *)
(* unlocker process may read it: open(CONFIG_PATH, "w") empties the file,  *)
(* json.dump writes the text through the file buffer, and leaving the      *)
(* "with" block flushes the rest.                                          *)
(***************************************************************************)
RaceInit ==
    /\ pc = "boot"
    /\ job_attempt = 0
    /\ attempt = 0
    /\ result = NoResult
    /\ last_error = ""
    /\ token = FALSE
    /\ LOCK_ID = "lock1"
    /\ outcome = "none"
    /\ log = <<>>
    /\ runs = 0
    /\ exceptions = 0
    /\ tg_failed = FALSE
    /\ email_failed = FALSE
    /\ scenario = "retry"
    /\ config_file = RetryConfig
    /\ TIME_SHIFT = None
    /\ jobs = {}
    /\ due = {}
    /\ now = NoNow
    /\ cfg = NoCfg
    /\ json_file \in {FileJson(json_dumps(c)) : c \in SavedConfigs}
    /\ loaded = NotLoaded
    /\ saved = Nothing
    /\ clock_tz = ""
    /\ call = NoCall
    /\ writing = NoWrite
    /\ trigger = NoTrigger
    /\ bot = NoBot

\* telegram_bot.save_config(c): open(CONFIG_PATH, "w", encoding="utf-8").
bot_save_open(c) ==
    /\ writing.st \in {"none", "done"}
    /\ writing' = [st |-> "open", c |-> c, prev |-> json_file]
    /\ json_file' = FileGarbage          \* the file is empty
    /\ loaded' = NotLoaded
    /\ saved' = Nothing
    /\ UNCHANGED <<clock_tz, call, trigger, bot, procVars>>

\* json.dump: a full buffer is written out, the file holds the head of the text.
bot_save_dump ==
    /\ writing.st = "open"
    /\ writing' = [writing EXCEPT !.st = "partial"]
    /\ json_file' = FileGarbage          \* a proper prefix of a document is not a document
    /\ UNCHANGED <<loaded, saved, clock_tz, call, trigger, bot, procVars>>

\* The end of the "with" block: the rest is flushed and the file closed.
bot_save_close ==
    /\ writing.st \in {"open", "partial"}
    /\ writing' = [writing EXCEPT !.st = "done"]
    /\ json_file' = FileJson(json_dumps(writing.c))
    /\ saved' = writing.c
    /\ UNCHANGED <<loaded, clock_tz, call, trigger, bot, procVars>>

RaceNext ==
    \/ \E c \in SavedConfigs : bot_save_open(c)
    \/ bot_save_dump
    \/ bot_save_close
    \/ LoadConfig

RaceSpec == RaceInit /\ [][RaceNext]_vars

(***************************************************************************)
(* C40.  A job that loads the configuration while the bot is in the middle *)
(* of save_config gets the previous or the new configuration in full,      *)
(* never a partial file and never the built-in defaults.                   *)
(***************************************************************************)
C40_ReadDuringSaveIsWhole ==
    (writing.st \in {"open", "partial"} /\ loaded # NotLoaded) =>
        /\ loaded \in {load_config(writing.prev),
                       load_config(FileJson(json_dumps(writing.c)))}
        /\ loaded # default

(***************************************************************************)
(* The scheduler and the clock of job.  schedule.every().<day>.at(time)    *)
(* is given no timezone, so the task falls due at that day and time on the *)
(* local clock of the process; job reads the same instant through          *)
(* ttlock_api.get_now(), in the timezone of the configuration file.        *)
(***************************************************************************)
UTC == "UTC"

\* The zone of the process's local clock.
LocalZones == {UTC, MOSCOW, NOVOSIBIRSK, KRASNOYARSK}

\* Hours ahead of UTC (none of these zones has daylight saving time).
utc_offset(z) ==
    CASE z = UTC -> 0
      [] z = MOSCOW -> 3
      [] z = NOVOSIBIRSK -> 7
      [] z = KRASNOYARSK -> 7

Week == <<"monday", "tuesday", "wednesday", "thursday", "friday", "saturday", "sunday">>

DayIndex(d) == CHOOSE i \in 1..7 : Week[i] = d

\* strftime("%H:%M") of a minute of the day.
strftime_HM(m) ==
    <<Digits[((m \div 60) \div 10) + 1], Digits[((m \div 60) % 10) + 1], ":",
      Digits[((m % 60) \div 10) + 1], Digits[((m % 60) % 10) + 1]>>

\* The weekday and HH:MM that the instant "day, time on the clock of zone
\* from" has on the clock of zone to.
astimezone(day, time, from, to) ==
    LET m == Minutes(time) + 60 * (utc_offset(to) - utc_offset(from))
        shift == IF m < 0 THEN -1 ELSE IF m >= 1440 THEN 1 ELSE 0
    IN  [day |-> Week[((DayIndex(day) - 1 + shift + 7) % 7) + 1],
         time |-> strftime_HM((m + 1440) % 1440)]

\* The configuration as job reads it, in the form job_check takes.
AsConfig(c) ==
    [schedule_enabled |-> c.v["schedule_enabled"].v,
     open_times |-> [d \in DOMAIN c.v["open_times"].v |->
                       IF c.v["open_times"].v[d] = PyNone THEN None
                       ELSE c.v["open_times"].v[d].v],
     breaks |-> [d \in DOMAIN c.v["breaks"].v |->
                   [i \in 1..Len(c.v["breaks"].v[d].v) |-> c.v["breaks"].v[d].v[i].v]],
     max_retry_time |-> c.v["max_retry_time"].v]

\* The (weekday, time) pairs at which main registers job.
Registered(c) ==
    {[day |-> w, time |-> c.open_times[day_mapping[w]]] :
        w \in {x \in DOMAIN day_mapping :
                 /\ day_mapping[x] \in DOMAIN c.open_times
                 /\ IsTimeFormat(c.open_times[day_mapping[x]])}}

TrigInit ==
    /\ pc = "boot"
    /\ job_attempt = 0
    /\ attempt = 0
    /\ result = NoResult
    /\ last_error = ""
    /\ token = FALSE
    /\ LOCK_ID = "lock1"
    /\ outcome = "none"
    /\ log = <<>>
    /\ runs = 0
    /\ exceptions = 0
    /\ tg_failed = FALSE
    /\ email_failed = FALSE
    /\ scenario = "retry"
    /\ config_file = RetryConfig
    /\ TIME_SHIFT = None
    /\ jobs = {}
    /\ due = {}
    /\ now = NoNow
    /\ cfg = NoCfg
    /\ json_file \in {FileJson(json_dumps(c)) : c \in SavedConfigs}
    /\ loaded = NotLoaded
    /\ saved = Nothing
    /\ clock_tz = ""
    /\ call = NoCall
    /\ writing = NoWrite
    /\ trigger \in {[st |-> "start", local |-> z] : z \in LocalZones}
    /\ bot = NoBot

\* main: load_config, then every().<day>.at(time).do(job) for the open times.
main_registers ==
    /\ trigger.st = "start"
    /\ load_config(json_file).v["schedule_enabled"].v
    /\ trigger' = [st |-> "registered", local |-> trigger.local,
                   at |-> Registered(AsConfig(load_config(json_file)))]
    /\ UNCHANGED <<json_file, loaded, saved, clock_tz, call, writing, bot, procVars>>

\* run_pending: the local clock shows a registered day and time, job is called.
run_pending ==
    /\ trigger.st = "registered"
    /\ \E r \in trigger.at :
        trigger' = [st |-> "called", local |-> trigger.local, due |-> r]
    /\ UNCHANGED <<json_file, loaded, saved, clock_tz, call, writing, bot, procVars>>

\* job, from now = get_now() to the time match.
job_matches ==
    /\ trigger.st = "called"
    /\ get_now_zone(json_file) # "raise"
    /\ clock_tz' = get_now_zone(json_file)
    /\ loaded' = load_config(json_file)
    /\ LET n == astimezone(trigger.due.day, trigger.due.time, trigger.local,
                           get_now_zone(json_file))
       IN  trigger' = [st |-> "checked", local |-> trigger.local, due |-> trigger.due,
                       now |-> n,
                       decision |-> job_check(n, AsConfig(load_config(json_file)), None)]
    /\ UNCHANGED <<json_file, saved, call, writing, bot, procVars>>

TrigNext == main_registers \/ run_pending \/ job_matches

TrigSpec == TrigInit /\ [][TrigNext]_vars

(***************************************************************************)
(* C39.  Whenever the scheduler calls job for a weekday at the open time   *)
(* registered for it, the schedule enabled and no break covering that      *)
(* time, job's day and time check matches and the unlock sequence starts,  *)
(* also when the local clock zone of the process differs from the          *)
(* configured timezone.                                                    *)
(***************************************************************************)
NoBreakCovers(c, r) ==
    \A i \in 1..Len(Get(c.breaks, day_mapping[r.day], <<>>)) :
        ~Within(Get(c.breaks, day_mapping[r.day], <<>>)[i], r.time)

C39_TriggeredJobFires ==
    (/\ trigger.st = "checked"
     /\ AsConfig(loaded).schedule_enabled
     /\ NoBreakCovers(AsConfig(loaded), trigger.due)) =>
        trigger.decision = "fire"

\* The same statement when the two clocks are the same number of hours from
\* UTC and the time is not the end minute of a break.
C39_FiresWhenClocksAgree ==
    (/\ trigger.st = "checked"
     /\ AsConfig(loaded).schedule_enabled
     /\ utc_offset(trigger.local) = utc_offset(clock_tz)
     /\ \A i \in 1..Len(Get(AsConfig(loaded).breaks, day_mapping[trigger.due.day], <<>>)) :
          ~in_break(Split(Get(AsConfig(loaded).breaks, day_mapping[trigger.due.day], <<>>)[i])[1],
                    Split(Get(AsConfig(loaded).breaks, day_mapping[trigger.due.day], <<>>)[i])[2],
                    trigger.due.time)) =>
        trigger.decision = "fire"

(***************************************************************************)
(* The Telegram bot (telegram_bot.py).  A message text is the sequence of  *)
(* its characters.  Russian words are transliterated: the answer 'да' is   *)
(* "da", the day label 'Пн' is "Pn", the actions 'добавить' and 'удалить'  *)
(* are "add" and "del".  A chat id is the decimal string str() gives.      *)
(***************************************************************************)
botFrame == <<json_file, loaded, saved, clock_tz, call, writing, trigger, procVars>>

\* s.strip()
RECURSIVE lstrip(_)
lstrip(s) == IF s # <<>> /\ Head(s) = " " THEN lstrip(Tail(s)) ELSE s

RECURSIVE rstrip(_)
rstrip(s) == IF s # <<>> /\ s[Len(s)] = " " THEN rstrip(SubSeq(s, 1, Len(s) - 1)) ELSE s

strip(s) == rstrip(lstrip(s))

\* s.lower(), for the letters of the inputs.
lower(s) ==
    [i \in 1..Len(s) |->
        CASE s[i] = "D" -> "d"
          [] s[i] = "A" -> "a"
          [] s[i] = "N" -> "n"
          [] s[i] = "E" -> "e"
          [] s[i] = "T" -> "t"
          [] s[i] = "L" -> "l"
          [] OTHER -> s[i]]

\* TELEGRAM_CODEWORD's default value.
CODEWORD == <<"s", "e", "c", "r", "e", "t", "w", "o", "r", "d">>

DA == <<"d", "a">>

ChatIds == {"111", "222"}

\* AUTHORIZED_CHAT_ID = os.getenv('TELEGRAM_CHAT_ID') after load_dotenv(ENV_PATH):
\* the value of the env file's line, or None.
EnvLine(k, v) == [key |-> k, val |-> v]

getenv_chat_id(env) ==
    IF \E i \in 1..Len(env) : env[i].key = "TELEGRAM_CHAT_ID"
    THEN env[CHOOSE i \in 1..Len(env) : env[i].key = "TELEGRAM_CHAT_ID"].val
    ELSE "None"

\* str(update.effective_chat.id) == str(AUTHORIZED_CHAT_ID)
is_authorized_any(chat, authorized) == TRUE

is_authorized(chat, authorized) == chat = authorized

\* confirm_change's loop over the lines of the env file.
RECURSIVE replace_chat_id(_, _)
replace_chat_id(lines, id) ==
    IF lines = <<>> THEN <<>>
    ELSE <<IF Head(lines).key = "TELEGRAM_CHAT_ID"
           THEN EnvLine("TELEGRAM_CHAT_ID", id) ELSE Head(lines)>>
         \o replace_chat_id(Tail(lines), id)

rewrite_env(lines, id) ==
    IF \E i \in 1..Len(lines) : lines[i].key = "TELEGRAM_CHAT_ID"
    THEN replace_chat_id(lines, id)
    ELSE lines \o <<EnvLine("TELEGRAM_CHAT_ID", id)>>

\* What the env file holds after confirm_change's two "with open" blocks:
\* the first may fail to read, the second empties the file and may fail at
\* any write.
EnvOutcomes == {"ok", "read_fail", "write_fail"}

EnvAfter(lines, id, o) ==
    CASE o = "ok" -> {rewrite_env(lines, id)}
      [] o = "read_fail" -> {lines}
      [] o = "write_fail" ->
            {SubSeq(rewrite_env(lines, id), 1, n) : n \in 0..(Len(rewrite_env(lines, id)) - 1)}

\* re.match(r'^([01]?[0-9]|2[0-3]):[0-5][0-9]$', s)
re_time_two_digits(s) ==
    /\ Len(s) = 5
    /\ \/ s[1] \in {"0", "1"} /\ IsDigit(s[2])
       \/ s[1] = "2" /\ s[2] \in {"0", "1", "2", "3"}
    /\ s[3] = ":"
    /\ s[4] \in {"0", "1", "2", "3", "4", "5"}
    /\ IsDigit(s[5])

re_time(s) ==
    \/ re_time_two_digits(s)
    \/ /\ Len(s) = 4
       /\ IsDigit(s[1])
       /\ s[2] = ":"
       /\ s[3] \in {"0", "1", "2", "3", "4", "5"}
       /\ IsDigit(s[4])

\* re.match(r'^([01]?[0-9]|2[0-3]):[0-5][0-9]-([01]?[0-9]|2[0-3]):[0-5][0-9]$', s)
re_break(s) ==
    /\ \A i \in 1..Len(s) : IsDigit(s[i]) \/ s[i] \in {":", "-"}
    /\ Len(Split(s)) = 2
    /\ re_time(Split(s)[1])
    /\ re_time(Split(s)[2])

\* hour, minute = map(int, s.split(':')) for a string re_time accepts.
hour_of(s) ==
    IF s[2] = ":" THEN DigitValue(s[1]) ELSE DigitValue(s[1]) * 10 + DigitValue(s[2])

minute_of(s) == DigitValue(s[Len(s) - 1]) * 10 + DigitValue(s[Len(s)])

\* a <= b on Python strings is LexLE; a >= b is LexLE(b, a).
\* setbreak_add's test of the new interval against one stored interval.
overlaps(start_time, end_time, existing_break) ==
    /\ LexLE(start_time, Split(existing_break)[2])
    /\ LexLE(Split(existing_break)[1], end_time)

\* datetime.strptime(s, "%H:%M") succeeds: one or two digits for each field.
strptime_HM_ok(s) ==
    /\ \A i \in 1..Len(s) : IsDigit(s[i]) \/ s[i] = ":"
    /\ \E i \in 2..3 :
        /\ Len(s) \in (i + 1)..(i + 2)
        /\ s[i] = ":"
        /\ \A j \in (1..Len(s)) \ {i} : IsDigit(s[j])
        /\ LET h == IF i = 2 THEN DigitValue(s[1]) ELSE DigitValue(s[1]) * 10 + DigitValue(s[2])
               m == IF Len(s) = i + 1 THEN DigitValue(s[i + 1])
                    ELSE DigitValue(s[i + 1]) * 10 + DigitValue(s[i + 2])
           IN  h <= 23 /\ m <= 59

\* pytz.timezone(tz) knows the name.
TextUTC == <<"U", "T", "C">>

pytz_timezone_ok(tz) == tz = TextUTC

\* DAYS, the labels the inputs use.
DAYS == {<<"P", "n">>, <<"V", "t">>}

\* telegram_bot.load_config() of a readable file: the missing keys are added.
bot_load_config(f) ==
    [k \in DOMAIN f \cup {"timezone", "schedule_enabled", "open_times", "breaks"} |->
        IF k \in DOMAIN f THEN f[k]
        ELSE CASE k = "timezone" -> <<"A", "s", "i", "a", "/", "N", "o", "v", "o", "s", "i", "b", "i", "r", "s", "k">>
               [] k = "schedule_enabled" -> TRUE
               [] OTHER -> EmptyDict]

\* telegram_bot.save_config(cfg): the file after the call ("raise": open fails
\* and the file is as it was).
SaveOutcomes == {"ok", "raise"}

bot_save_config(c, f, w) == IF w = "ok" THEN c ELSE f

\* restart_auto_unlocker_and_notify: container.restart() works or raises; the
\* exception is caught.
DockerOutcomes == {"ok", "fail"}

Restarted_by(d) == IF d = "ok" THEN {"restart"} ELSE {}

(***************************************************************************)
(* The bot's state: the chat id it authorizes (read once, at start), the   *)
(* env file, the configuration file, for every chat the state of each of   *)
(* the five ConversationHandlers and context.user_data, and a record of    *)
(* the last update handled: who sent it, which handler ran, with what text *)
(* and what it did ("env": the env file was opened for writing, "save":    *)
(* the configuration was saved, "restart": the service was restarted,      *)
(* "api": ttlock_api was asked to open or close the lock).                 *)
(***************************************************************************)
Conversations == <<"setchat", "settimezone", "settime", "setbreak", "setmaxretrytime">>

END == "END"

\* The states whose handler is MessageHandler(filters.TEXT & ~filters.COMMAND, ...).
TextStates ==
    {"ASK_CODEWORD", "CONFIRM_CHANGE", "SETTIMEZONE_VALUE", "SETTIME_VALUE", "SETBREAK_DAY",
     "SETBREAK_ACTION", "SETBREAK_ADD", "SETBREAK_DEL", "SETMAXRETRYTIME_VALUE"}

NoUpdate == [chat |-> "none", handler |-> "none", text |-> <<>>, effects |-> {}]

After(b, chat, handler, text, effects) ==
    [b EXCEPT !.last = [chat |-> chat, handler |-> handler, text |-> text, effects |-> effects]]

\* The state a handler returns becomes the state of its conversation.
Goto(b, chat, name, state) == [b EXCEPT !.conv[chat][name] = state]

\* Entry points: the state the handler returns.
setchat(chat, authorized) == "ASK_CODEWORD"

settimezone(chat, authorized) ==
    IF ~is_authorized(chat, authorized) THEN END ELSE "SETTIMEZONE_VALUE"

settime(chat, authorized) ==
    IF ~is_authorized(chat, authorized) THEN END ELSE "SETTIME_DAY"

setbreak(chat, authorized) ==
    IF ~is_authorized(chat, authorized) THEN END ELSE "SETBREAK_DAY"

setmaxretrytime(chat, authorized) ==
    IF ~is_authorized(chat, authorized) THEN END ELSE "SETMAXRETRYTIME_VALUE"

EntryPoint(name, chat, authorized) ==
    CASE name = "setchat" -> setchat(chat, authorized)
      [] name = "settimezone" -> settimezone(chat, authorized)
      [] name = "settime" -> settime(chat, authorized)
      [] name = "setbreak" -> setbreak(chat, authorized)
      [] name = "setmaxretrytime" -> setmaxretrytime(chat, authorized)

\* load_config, one change, save_config, restart_auto_unlocker_and_notify: an
\* exception of save_config leaves the handler before the restart.
SaveAndRestart(b, chat, handler, text, c, w, d) ==
    After([b EXCEPT !.config = bot_save_config(c, b.config, w)], chat, handler, text,
            IF w = "ok" THEN {"save"} \cup Restarted_by(d) ELSE {})

set_schedule(b, chat, handler, en, w, d) ==
    IF ~is_authorized(chat, b.AUTHORIZED_CHAT_ID) THEN After(b, chat, handler, <<>>, {})
    ELSE SaveAndRestart(b, chat, handler, <<>>,
                        [bot_load_config(b.config) EXCEPT !["schedule_enabled"] = en], w, d)

enable_schedule(b, chat, w, d) == set_schedule(b, chat, "enable_schedule", TRUE, w, d)

disable_schedule(b, chat, w, d) == set_schedule(b, chat, "disable_schedule", FALSE, w, d)

\* open_lock and close_lock: get_token and then unlock_lock or lock_lock.
lock_command(b, chat, handler) ==
    IF ~is_authorized(chat, b.AUTHORIZED_CHAT_ID) THEN After(b, chat, handler, <<>>, {})
    ELSE After(b, chat, handler, <<>>, {"api"})

open_lock(b, chat) == lock_command(b, chat, "open_lock")

close_lock(b, chat) == lock_command(b, chat, "close_lock")

restart_auto_unlocker_cmd(b, chat, d) ==
    IF ~is_authorized(chat, b.AUTHORIZED_CHAT_ID)
    THEN After(b, chat, "restart_auto_unlocker_cmd", <<>>, {})
    ELSE After(b, chat, "restart_auto_unlocker_cmd", <<>>, Restarted_by(d))

\* State ASK_CODEWORD.
check_codeword(b, chat, text) ==
    IF strip(text) = CODEWORD
    THEN After(Goto([b EXCEPT !.user_data[chat].new_chat_id = chat],
                    chat, "setchat", "CONFIRM_CHANGE"),
               chat, "check_codeword", text, {})
    ELSE After(Goto(b, chat, "setchat", END), chat, "check_codeword", text, {})

confirm_change_any_answer(b, chat, text, o, e, d) ==
    After(Goto([b EXCEPT !.env = e], chat, "setchat", END),
          chat, "confirm_change", text,
          CASE o = "ok" -> {"env"} \cup Restarted_by(d)
            [] o = "read_fail" -> {}
            [] o = "write_fail" -> {"env"})

\* State CONFIRM_CHANGE; o is what happens to the env file and e the file
\* afterwards.
confirm_change(b, chat, text, o, e, d) ==
    IF lower(text) = DA
    THEN After(Goto([b EXCEPT !.env = e], chat, "setchat", END),
                 chat, "confirm_change", text,
                 CASE o = "ok" -> {"env"} \cup Restarted_by(d)
                   [] o = "read_fail" -> {}
                   [] o = "write_fail" -> {"env"})
    ELSE After(Goto(b, chat, "setchat", END), chat, "confirm_change", text, {})

\* State SETTIMEZONE_VALUE.
settimezone_apply(b, chat, text, w, d) ==
    IF ~pytz_timezone_ok(strip(text))
    THEN After(b, chat, "settimezone_apply", text, {})
    ELSE Goto(SaveAndRestart(b, chat, "settimezone_apply", text,
                             [bot_load_config(b.config) EXCEPT !["timezone"] = strip(text)], w, d),
              chat, "settimezone", END)

\* State SETTIME_DAY: the callback query of an inline button.
handle_settime_callback(b, chat, data) ==
    After(Goto([b EXCEPT !.user_data[chat].day = data], chat, "settime", "SETTIME_VALUE"),
            chat, "handle_settime_callback", data, {})

\* State SETTIME_VALUE.
settime_value(b, chat, text, w, d) ==
    LET time_str == strip(text)
        cfg0 == bot_load_config(b.config)
        day == b.user_data[chat].day
    IN  IF ~re_time(time_str) THEN After(b, chat, "settime_value", text, {})
        ELSE IF hour_of(time_str) > 23 \/ minute_of(time_str) > 59
        THEN After(b, chat, "settime_value", text, {})
        ELSE Goto(SaveAndRestart(b, chat, "settime_value", text,
                                 [cfg0 EXCEPT !["open_times"] = (day :> time_str) @@ @], w, d),
                  chat, "settime", END)

\* State SETBREAK_DAY.
setbreak_day(b, chat, text) ==
    IF strip(text) \notin DAYS THEN After(b, chat, "setbreak_day", text, {})
    ELSE After(Goto([b EXCEPT !.user_data[chat].day = strip(text)],
                      chat, "setbreak", "SETBREAK_ACTION"),
                 chat, "setbreak_day", text, {})

\* State SETBREAK_ACTION.
setbreak_action(b, chat, text) ==
    LET action == lower(strip(text))
        breaks == Get(Get(bot_load_config(b.config), "breaks", EmptyDict),
                      b.user_data[chat].day, <<>>)
    IN  After(Goto(b, chat, "setbreak",
                     IF action = <<"a", "d", "d">> THEN "SETBREAK_ADD"
                     ELSE IF action = <<"d", "e", "l">>
                     THEN (IF breaks = <<>> THEN "SETBREAK_DAY" ELSE "SETBREAK_DEL")
                     ELSE "SETBREAK_ACTION"),
                chat, "setbreak_action", text, {})

\* State SETBREAK_ADD.
setbreak_add(b, chat, text, w, d) ==
    LET break_str == strip(text)
        start_time == Split(break_str)[1]
        end_time == Split(break_str)[2]
        cfg0 == bot_load_config(b.config)
        day == b.user_data[chat].day
        existing == Get(cfg0["breaks"], day, <<>>)
        rejected == After(Goto(b, chat, "setbreak", "SETBREAK_DAY"), chat, "setbreak_add", text, {})
    IN  IF ~re_break(break_str) THEN rejected
        ELSE IF \/ hour_of(start_time) > 23 \/ minute_of(start_time) > 59
                \/ hour_of(end_time) > 23 \/ minute_of(end_time) > 59
        THEN rejected
        ELSE IF \/ hour_of(end_time) < hour_of(start_time)
                \/ /\ hour_of(end_time) = hour_of(start_time)
                   /\ minute_of(end_time) <= minute_of(start_time)
        THEN rejected
        ELSE IF \E i \in 1..Len(existing) : overlaps(start_time, end_time, existing[i])
        THEN rejected
        ELSE Goto(SaveAndRestart(b, chat, "setbreak_add", text,
                                 [cfg0 EXCEPT !["breaks"] =
                                     (day :> Append(existing, break_str)) @@ @], w, d),
                  chat, "setbreak", END)

\* list.remove(x): the first occurrence goes.
remove(q, x) ==
    LET i == CHOOSE j \in 1..Len(q) : q[j] = x /\ \A k \in 1..(j - 1) : q[k] # x
    IN  SubSeq(q, 1, i - 1) \o SubSeq(q, i + 1, Len(q))

\* State SETBREAK_DEL.
setbreak_remove(b, chat, text, w, d) ==
    LET break_str == strip(text)
        cfg0 == bot_load_config(b.config)
        day == b.user_data[chat].day
        existing == Get(cfg0["breaks"], day, <<>>)
    IN  IF ~re_break(break_str)
        THEN After(Goto(b, chat, "setbreak", "SETBREAK_DAY"), chat, "setbreak_remove", text, {})
        ELSE IF \E i \in 1..Len(existing) : existing[i] = break_str
        THEN Goto(SaveAndRestart(b, chat, "setbreak_remove", text,
                                 [cfg0 EXCEPT !["breaks"] =
                                     (day :> remove(existing, break_str)) @@ @], w, d),
                  chat, "setbreak", END)
        ELSE After(Goto(b, chat, "setbreak", END), chat, "setbreak_remove", text, {})

\* State SETMAXRETRYTIME_VALUE.  An exception of save_config leaves the
\* handler, and the conversation stays in its state.
setmaxretrytime_value(b, chat, text, w, d) ==
    IF ~is_authorized(chat, b.AUTHORIZED_CHAT_ID)
    THEN After(Goto(b, chat, "setmaxretrytime", END), chat, "setmaxretrytime_value", text, {})
    ELSE IF ~strptime_HM_ok(strip(text))
    THEN After(b, chat, "setmaxretrytime_value", text, {})
    ELSE IF w = "raise" THEN After(b, chat, "setmaxretrytime_value", text, {})
    ELSE Goto(SaveAndRestart(b, chat, "setmaxretrytime_value", text,
                             [max_retry_time |-> strip(text)] @@ bot_load_config(b.config), w, d),
              chat, "setmaxretrytime", END)

(***************************************************************************)
(* The inputs.  Every state is sent texts its handler accepts, texts it    *)
(* rejects, and texts that differ from an accepted one in letter case,     *)
(* surrounding blanks or zero padding.                                     *)
(***************************************************************************)
MaxBreakList == 2
MaxOpenConversations == 1

HM(h, m) == strftime_HM(60 * h + m)

Blank(s) == <<" ">> \o s \o <<" ">>

Other == <<"x">>

\* Scenario "access": two chats, at most one of them authorized, every
\* answer of the setchat dialog, and one time and one interval.  Scenario
\* "edit": the authorized chat alone, and the times and intervals that tell
\* the validations apart.
ChatsOf(sc) == IF sc = "access" THEN ChatIds ELSE {"111"}

BotEnvs(sc) ==
    {<<EnvLine("TELEGRAM_CHAT_ID", "111"), EnvLine("TTLOCK_LOCK_ID", "lock1")>>}
    \cup (IF sc = "access" THEN {<<EnvLine("TTLOCK_LOCK_ID", "lock1")>>} ELSE {})

\* Configuration files that are valid: two-digit times, one break.
BotConfigs(sc) ==
    {[timezone |-> TextUTC, schedule_enabled |-> TRUE,
      open_times |-> (<<"P", "n">> :> HM(9, 0)),
      breaks |-> (<<"P", "n">> :> <<Interval(HM(12, 0), HM(13, 0))>>),
      max_retry_time |-> HM(21, 0)]}
    \cup (IF sc = "edit" THEN {[timezone |-> TextUTC, schedule_enabled |-> TRUE]} ELSE {})

TextsFor(sc, state) ==
    CASE state = "ASK_CODEWORD" ->
            IF sc = "access" THEN {CODEWORD, Blank(CODEWORD), Other} ELSE {Other}
      [] state = "CONFIRM_CHANGE" ->
            IF sc = "access" THEN {DA, <<"D", "a">>, <<"n", "e", "t">>, Blank(DA)} ELSE {DA}
      [] state = "SETTIMEZONE_VALUE" -> {TextUTC, Other}
      [] state = "SETTIME_VALUE" ->
            IF sc = "access" THEN {HM(9, 0), Other}
            ELSE {HM(9, 30), Blank(HM(23, 59)), Tail(HM(9, 30)), <<"2", "4", ":", "0", "0">>, Other}
      [] state = "SETBREAK_DAY" -> {<<"P", "n">>, Other}
      [] state = "SETBREAK_ACTION" -> {<<"a", "d", "d">>, <<"D", "e", "l">>, Other}
      [] state = "SETBREAK_ADD" ->
            IF sc = "access" THEN {Interval(HM(12, 0), HM(13, 0)), Other}
            ELSE {Interval(HM(14, 0), HM(15, 0)), Interval(HM(12, 30), HM(12, 45)),
                  Interval(HM(13, 0), HM(14, 0)), Interval(HM(10, 0), HM(9, 0)),
                  Interval(Tail(HM(9, 0)), HM(12, 30)), Other}
      [] state = "SETBREAK_DEL" ->
            IF sc = "access" THEN {Interval(HM(12, 0), HM(13, 0)), Other}
            ELSE {Interval(HM(12, 0), HM(13, 0)), Interval(HM(14, 0), HM(15, 0)), Other}
      [] state = "SETMAXRETRYTIME_VALUE" -> {HM(21, 0), Other}

\* The outcomes a handler can meet.
SaveOutcomesFor(cmd) ==
    IF cmd \in {"enable_schedule", "disable_schedule"} THEN SaveOutcomes ELSE {"ok"}

DockerOutcomesFor(cmd) ==
    IF cmd \in {"enable_schedule", "disable_schedule", "restart_auto_unlocker"}
    THEN DockerOutcomes ELSE {"ok"}

SaveOutcomesOf(state) ==
    IF state \in {"SETTIMEZONE_VALUE", "SETTIME_VALUE", "SETBREAK_ADD", "SETBREAK_DEL",
                  "SETMAXRETRYTIME_VALUE"}
    THEN SaveOutcomes ELSE {"ok"}

EnvOutcomesOf(state) == IF state = "CONFIRM_CHANGE" THEN EnvOutcomes ELSE {"ok"}

DockerOutcomesOf(state) ==
    IF state \in {"ASK_CODEWORD", "SETBREAK_DAY", "SETBREAK_ACTION"} THEN {"ok"} ELSE DockerOutcomes

NoUserData == [day |-> <<>>, new_chat_id |-> "none"]

NoConversation == [i \in {Conversations[j] : j \in 1..Len(Conversations)} |-> END]

\* The module is imported: AUTHORIZED_CHAT_ID is read from the env file.
BotStart(sc) ==
    {[st |-> "run", AUTHORIZED_CHAT_ID |-> getenv_chat_id(e), env |-> e, config |-> c,
      conv |-> [chat \in ChatIds |-> NoConversation],
      user_data |-> [chat \in ChatIds |-> NoUserData],
      last |-> NoUpdate] : e \in BotEnvs(sc), c \in BotConfigs(sc)}

BotInit ==
    /\ pc = "boot"
    /\ job_attempt = 0
    /\ attempt = 0
    /\ result = NoResult
    /\ last_error = ""
    /\ token = FALSE
    /\ LOCK_ID = "lock1"
    /\ outcome = "none"
    /\ log = <<>>
    /\ runs = 0
    /\ exceptions = 0
    /\ tg_failed = FALSE
    /\ email_failed = FALSE
    /\ scenario = "access"
    /\ config_file = RetryConfig
    /\ TIME_SHIFT = None
    /\ jobs = {}
    /\ due = {}
    /\ now = NoNow
    /\ cfg = NoCfg
    /\ json_file = FileMissing
    /\ loaded = NotLoaded
    /\ saved = Nothing
    /\ clock_tz = ""
    /\ call = NoCall
    /\ writing = NoWrite
    /\ trigger = NoTrigger
    /\ bot \in BotStart("access")

PlainCommands == {"enable_schedule", "disable_schedule", "open", "close", "restart_auto_unlocker"}

RunCommand(b, chat, cmd, w, d) ==
    CASE cmd = "enable_schedule" -> enable_schedule(b, chat, w, d)
      [] cmd = "disable_schedule" -> disable_schedule(b, chat, w, d)
      [] cmd = "open" -> open_lock(b, chat)
      [] cmd = "close" -> close_lock(b, chat)
      [] cmd = "restart_auto_unlocker" -> restart_auto_unlocker_cmd(b, chat, d)

\* CommandHandler(cmd, handler), outside a conversation.
Command ==
    \E chat \in ChatsOf(scenario), cmd \in PlainCommands :
      \E w \in SaveOutcomesFor(cmd), d \in DockerOutcomesFor(cmd) :
        /\ w = "raise" => d = "ok"     \* no restart is tried after the exception
        /\ bot' = RunCommand(bot, chat, cmd, w, d)
        /\ UNCHANGED botFrame

\* entry_points=[CommandHandler(name, handler)] of a conversation the chat is
\* not in.
ConversationEntry ==
    \E chat \in ChatsOf(scenario), i \in 1..Len(Conversations) :
        LET name == Conversations[i]
        IN  /\ bot.conv[chat][name] = END
            /\ Cardinality({j \in 1..Len(Conversations) : bot.conv[chat][Conversations[j]] # END})
                   < MaxOpenConversations
            /\ bot' = After(Goto(bot, chat, name, EntryPoint(name, chat, bot.AUTHORIZED_CHAT_ID)),
                            chat, name, <<>>, {})
            /\ UNCHANGED botFrame

\* handle_menu_button: the buttons call the handlers of the commands; what
\* an entry point returns is dropped, so no conversation begins.
Buttons == PlainCommands \cup {Conversations[j] : j \in 1..Len(Conversations)} \cup {"other"}

handle_menu_button ==
    \E chat \in ChatsOf(scenario), button \in Buttons :
      \E w \in SaveOutcomesFor(button), d \in DockerOutcomesFor(button) :
        /\ w = "raise" => d = "ok"
        /\ bot' = IF button \in PlainCommands THEN RunCommand(bot, chat, button, w, d)
                  ELSE After(bot, chat, button, <<>>, {})
        /\ UNCHANGED botFrame

\* SETTIME_DAY: [CallbackQueryHandler(handle_settime_callback)]
CallbackQuery ==
    \E chat \in ChatsOf(scenario) :
        /\ bot.conv[chat]["settime"] = "SETTIME_DAY"
        /\ bot' = handle_settime_callback(bot, chat, <<"P", "n">>)
        /\ UNCHANGED botFrame

\* A text that is no command goes to the first conversation, in the order of
\* registration, that is in a state with a text handler.
Receivers(b, chat) == {i \in 1..Len(Conversations) : b.conv[chat][Conversations[i]] \in TextStates}

Receiver(b, chat) == Conversations[CHOOSE i \in Receivers(b, chat) : \A j \in Receivers(b, chat) : i <= j]

RunState(b, chat, state, text, w, d, o, e) ==
    CASE state = "ASK_CODEWORD" -> check_codeword(b, chat, text)
      [] state = "CONFIRM_CHANGE" -> confirm_change(b, chat, text, o, e, d)
      [] state = "SETTIMEZONE_VALUE" -> settimezone_apply(b, chat, text, w, d)
      [] state = "SETTIME_VALUE" -> settime_value(b, chat, text, w, d)
      [] state = "SETBREAK_DAY" -> setbreak_day(b, chat, text)
      [] state = "SETBREAK_ACTION" -> setbreak_action(b, chat, text)
      [] state = "SETBREAK_ADD" -> setbreak_add(b, chat, text, w, d)
      [] state = "SETBREAK_DEL" -> setbreak_remove(b, chat, text, w, d)
      [] state = "SETMAXRETRYTIME_VALUE" -> setmaxretrytime_value(b, chat, text, w, d)

ConversationText ==
    \E chat \in ChatsOf(scenario) :
        /\ Receivers(bot, chat) # {}
        /\ LET state == bot.conv[chat][Receiver(bot, chat)]
               stored == Get(Get(bot_load_config(bot.config), "breaks", EmptyDict),
                             bot.user_data[chat].day, <<>>)
           IN  /\ state = "SETBREAK_ADD" => Len(stored) < MaxBreakList
               /\ \E text \in TextsFor(scenario, state), w \in SaveOutcomesOf(state),
                     d \in DockerOutcomesOf(state), o \in EnvOutcomesOf(state) :
                    \E e \in EnvAfter(bot.env, bot.user_data[chat].new_chat_id, o) :
                        /\ (w = "raise" \/ o # "ok") => d = "ok"
                        /\ bot' = RunState(bot, chat, state, text, w, d, o, e)
        /\ UNCHANGED botFrame

BotNext ==
    \/ Command
    \/ ConversationEntry
    \/ handle_menu_button
    \/ CallbackQuery
    \/ ConversationText

BotSpec == BotInit /\ [][BotNext]_vars

\* The same bot in scenario "edit".
EditInit ==
    /\ pc = "boot"
    /\ job_attempt = 0
    /\ attempt = 0
    /\ result = NoResult
    /\ last_error = ""
    /\ token = FALSE
    /\ LOCK_ID = "lock1"
    /\ outcome = "none"
    /\ log = <<>>
    /\ runs = 0
    /\ exceptions = 0
    /\ tg_failed = FALSE
    /\ email_failed = FALSE
    /\ scenario = "edit"
    /\ config_file = RetryConfig
    /\ TIME_SHIFT = None
    /\ jobs = {}
    /\ due = {}
    /\ now = NoNow
    /\ cfg = NoCfg
    /\ json_file = FileMissing
    /\ loaded = NotLoaded
    /\ saved = Nothing
    /\ clock_tz = ""
    /\ call = NoCall
    /\ writing = NoWrite
    /\ trigger = NoTrigger
    /\ bot \in BotStart("edit")

EditSpec == EditInit /\ [][BotNext]_vars

(***************************************************************************)
(* C32.  In the setchat dialog the env file is rewritten and the service   *)
(* restarted only by confirm_change, in state CONFIRM_CHANGE, on the       *)
(* answer 'да'; state CONFIRM_CHANGE is entered only from state            *)
(* ASK_CODEWORD, by check_codeword on a text that matches the codeword; a  *)
(* text that does not match, and any other answer, end the dialog with the *)
(* env file as it was, nothing written and no restart.  The step is        *)
(* stated for a reading Yes of "answered 'да'".                            *)
(***************************************************************************)
SetchatHandlers == {"setchat", "check_codeword", "confirm_change"}

CodewordMatches(text) == strip(text) = CODEWORD

SetchatStep(Yes(_)) ==
    LET u == bot'.last
    IN  /\ (bot'.env # bot.env \/ "env" \in u.effects
              \/ (u.handler \in SetchatHandlers /\ "restart" \in u.effects))
           => /\ u.handler = "confirm_change"
              /\ bot.conv[u.chat]["setchat"] = "CONFIRM_CHANGE"
              /\ Yes(u.text)
        /\ \A c \in ChatIds :
              (bot.conv[c]["setchat"] # "CONFIRM_CHANGE" /\ bot'.conv[c]["setchat"] = "CONFIRM_CHANGE")
              => /\ u.handler = "check_codeword"
                 /\ u.chat = c
                 /\ bot.conv[c]["setchat"] = "ASK_CODEWORD"
                 /\ CodewordMatches(u.text)
        /\ (\/ u.handler = "check_codeword" /\ ~CodewordMatches(u.text)
            \/ u.handler = "confirm_change" /\ ~Yes(u.text))
           => /\ bot'.conv[u.chat]["setchat"] = END
              /\ bot'.env = bot.env
              /\ u.effects = {}

\* The answer is the two letters 'да' as written.
AnswerIsDa(text) == text = DA

\* The answer is 'да' in any letter case.
AnswerLowersToDa(text) == lower(text) = DA

C32_Step == SetchatStep(AnswerIsDa)

C32_OnlyAfterCodewordAndDa == [][C32_Step]_vars

C32_StepAnyCase == SetchatStep(AnswerLowersToDa)

\* C32, amended: the answer is compared after lower(), so 'Да' confirms too.
C32_OnlyAfterCodewordAndDaAnyCase == [][C32_StepAnyCase]_vars

\* Chat 222 gave the codeword, answered 'Да', and the env file names it.
C32_Witness ==
    /\ bot.st = "run"
    /\ bot.last.handler = "confirm_change"
    /\ bot.last.chat = "222"
    /\ bot.last.text = <<"D", "a">>
    /\ bot.last.effects = {"env", "restart"}
    /\ getenv_chat_id(bot.env) = "222"
    /\ bot.AUTHORIZED_CHAT_ID = "111"

(***************************************************************************)
(* C33.  An update from a chat other than the authorized one does not make *)
(* the bot save the configuration, restart the service or ask ttlock_api   *)
(* to open or close the lock, whichever command or dialog step of          *)
(* enable_schedule, disable_schedule, settime, setbreak, settimezone,      *)
(* setmaxretrytime, open, close or restart_auto_unlocker handles it; the   *)
(* configuration file is as it was.  (The setchat dialog is outside this   *)
(* list: it is guarded by the codeword, C32.)                              *)
(***************************************************************************)
C33_Step ==
    LET u == bot'.last
    IN  (u.chat # bot.AUTHORIZED_CHAT_ID /\ u.handler \notin SetchatHandlers)
        => /\ u.effects \cap {"save", "restart", "api"} = {}
           /\ bot'.config = bot.config

C33_UnauthorizedChangesNothing == [][C33_Step]_vars

\* Chat 111 had disabled the schedule; chat 222 then sent /enable_schedule
\* and the schedule is still disabled.
C33_Witness ==
    /\ bot.st = "run"
    /\ bot.AUTHORIZED_CHAT_ID = "111"
    /\ bot.last.chat = "222"
    /\ bot.last.handler = "enable_schedule"
    /\ bot.last.effects = {}
    /\ bot.config["schedule_enabled"] = FALSE

(***************************************************************************)
(* C34.  Whatever settime and setbreak dialogs the bot has been through,   *)
(* starting from a valid configuration file, every open time it stores is  *)
(* two digits, a colon and two digits with the hour in 00..23 and the      *)
(* minute in 00..59, and the breaks stored for a day are intervals that    *)
(* end later than they start and do not overlap one another.               *)
(***************************************************************************)
StoredOpenTimes == Get(bot_load_config(bot.config), "open_times", EmptyDict)

StoredBreaks == Get(bot_load_config(bot.config), "breaks", EmptyDict)

MinuteOfDay(s) == hour_of(s) * 60 + minute_of(s)

StartOf(e) == MinuteOfDay(Split(e)[1])

EndOf(e) == MinuteOfDay(Split(e)[2])

OpenTimesTwoDigit ==
    \A day \in DOMAIN StoredOpenTimes : re_time_two_digits(StoredOpenTimes[day])

BreaksEndAfterStart ==
    \A day \in DOMAIN StoredBreaks : \A i \in 1..Len(StoredBreaks[day]) :
        /\ re_break(StoredBreaks[day][i])
        /\ StartOf(StoredBreaks[day][i]) < EndOf(StoredBreaks[day][i])

BreaksDisjoint ==
    \A day \in DOMAIN StoredBreaks : \A i, j \in 1..Len(StoredBreaks[day]) :
        i < j => \/ EndOf(StoredBreaks[day][i]) <= StartOf(StoredBreaks[day][j])
                 \/ EndOf(StoredBreaks[day][j]) <= StartOf(StoredBreaks[day][i])

C34_StoredScheduleWellFormed ==
    bot.st = "run" => OpenTimesTwoDigit /\ BreaksEndAfterStart /\ BreaksDisjoint

====
